---- MODULE Spec2Model ----
(***************************************************************************)
(* A model of the ChatKit server's streaming engine: the request router    *)
(* (processStreamingImpl / processNonStreaming), the thread event          *)
(* coordinator (processEvents) and the default cancellation hook           *)
(* (handleStreamCancelled), run against the in-memory Store.               *)
(*                                                                         *)
(* Strings of the program whose characters matter (message text) are       *)
(* sequences of one-character strings; identifiers are TLA+ strings.       *)
(***************************************************************************)
EXTENDS Integers, Sequences, FiniteSets, TLC

VARIABLES
    store,          \* InMemoryStore.threads: thread id -> the thread's items, in order
    idCounter,      \* the module-level counter of defaultGenerateId
    pc,             \* position of the request being processed
    request,        \* the request being processed
    thread,         \* id of the thread the request works on
    pendingItems,   \* processEvents' pendingItems, in insertion order
    event,          \* the turn-source event being handled
    emitThreadUpdate, \* processEvents' emitThreadUpdate flag for that event
    consumed,       \* the turn-source events consumed so far, in order
    out,            \* the events the consumer has received, in order
    base,           \* history: Len(out) when processEvents was called
    raised,         \* history: the exception the turn source raised
    writes,         \* history: the store's item writes, each with Len(out) at that time
    response,       \* the result of a non-streaming request
    cancelInput,    \* the pendingItems argument handed to handleStreamCancelled
    stream,         \* processEvents' stream argument: the turn source and its input
    invoked,        \* history: the call of the turn source, once it has been made
    title,          \* thread.title of the request's working copy of the thread
    storedTitle,    \* the title the store holds for each thread
    diffBefore,     \* diffWidget's argument before
    diffAfter,      \* diffWidget's argument after
    diffResult,     \* what the call of diffWidget produced
    widgetArg,      \* streamWidget's argument widget
    asyncGen,       \* the snapshots the widget generator has yet to yield
    lastState,      \* streamWidget's lastState
    widgetItemId,   \* streamWidget's itemId
    widgetOut,      \* the events streamWidget has yielded, in order
    queueItems,     \* AsyncQueue.items
    resolvers,      \* AsyncQueue.resolvers: the pending next() promises
    queueDone,      \* AsyncQueue.done
    delivered,      \* history: the results the consumer's next() calls resolved to
    enqueued        \* history: the items handed to enqueue, in order

vars == <<store, idCounter, pc, request, thread, pendingItems, event,
          emitThreadUpdate, consumed, out, base, raised, writes, response,
          cancelInput, stream, invoked, title, storedTitle,
          diffBefore, diffAfter, diffResult, widgetArg, asyncGen, lastState,
          widgetItemId, widgetOut, queueItems, resolvers, queueDone,
          delivered, enqueued>>

\* the state of the widget helpers
widgetVars == <<diffBefore, diffAfter, diffResult, widgetArg, asyncGen,
                lastState, widgetItemId, widgetOut>>

\* the state of the queue helper
queueVars == <<queueItems, resolvers, queueDone, delivered, enqueued>>

\* the state of the chat server proper, but for pc and the id counter
serverVars == <<store, request, thread, pendingItems, event,
                emitThreadUpdate, consumed, out, base, raised, writes, response,
                cancelInput, stream, invoked, title, storedTitle>>

-----------------------------------------------------------------------------
(* Bounds *)

\* the largest number of events the turn source yields in one turn
MaxEvents == 3

\* the largest number of items handed to the cancellation hook
MaxCancelItems == 2

\* the largest number of snapshots a widget generator yields
MaxSnapshots == 3

\* the largest number of calls of enqueue
MaxEnqueues == 3

(* Program constants *)

DEFAULT_PAGE_SIZE == 20

DEFAULT_ERROR_MESSAGE == "An error occurred when generating a response."

CANCEL_MESSAGE == "The user cancelled the stream. Stop responding to the prior request."

-----------------------------------------------------------------------------
(* Generic helpers *)

Min(a, b) == IF a <= b THEN a ELSE b

\* Array.prototype.filter
Filter(s, keep(_)) == SelectSeq(s, keep)

\* Array.prototype.reverse
Reverse(s) == [i \in 1..Len(s) |-> s[Len(s) + 1 - i]]

\* Array.prototype.slice(from, to) with 0-based, end-exclusive indices
Slice(s, from, to) ==
    LET hi == Min(to, Len(s))
    IN  IF from >= hi THEN <<>> ELSE SubSeq(s, from + 1, hi)

\* Array.prototype.findIndex on item ids: 0-based index of the first item with
\* that id, or -1
FindIndex(s, id) ==
    IF \E i \in 1..Len(s) : s[i].id = id
    THEN (CHOOSE i \in 1..Len(s) : s[i].id = id /\ \A j \in 1..(i - 1) : s[j].id # id) - 1
    ELSE -1

\* String.prototype.trim on a sequence of characters
IsSpace(c) == c \in {" ", "\t", "\n"}

RECURSIVE TrimStart(_)
TrimStart(t) ==
    IF t # <<>> /\ IsSpace(Head(t)) THEN TrimStart(Tail(t)) ELSE t

Trim(t) == Reverse(TrimStart(Reverse(TrimStart(t))))

HexDigits == <<"0", "1", "2", "3", "4", "5", "6", "7",
               "8", "9", "a", "b", "c", "d", "e", "f">>

\* Number.prototype.toString(16)
RECURSIVE ToHex(_)
ToHex(n) ==
    IF n < 16 THEN HexDigits[n + 1]
    ELSE ToHex(n \div 16) \o HexDigits[(n % 16) + 1]

-----------------------------------------------------------------------------
(* Thread items, updates and events *)

NoItem == [id |-> "", type |-> "none", content |-> <<>>, hidden |-> "", status |-> "", output |-> ""]

OutputText(text) == [type |-> "output_text", text |-> text, annotations |-> <<>>]

AssistantMessage(id, content) ==
    [id |-> id, type |-> "assistant_message", content |-> content,
     hidden |-> "", status |-> "", output |-> ""]

UserMessage(id) ==
    [id |-> id, type |-> "user_message", content |-> <<>>, hidden |-> "", status |-> "", output |-> ""]

HiddenContext(id, text) ==
    [id |-> id, type |-> "hidden_context", content |-> <<>>, hidden |-> text,
     status |-> "", output |-> ""]

SDKHiddenContext(id, text) ==
    [id |-> id, type |-> "sdk_hidden_context", content |-> <<>>, hidden |-> text,
     status |-> "", output |-> ""]

WidgetItem(id) ==
    [id |-> id, type |-> "widget", content |-> <<>>, hidden |-> "", status |-> "", output |-> ""]

ClientToolCall(id, status, output) ==
    [id |-> id, type |-> "client_tool_call", content |-> <<>>, hidden |-> "",
     status |-> status, output |-> output]

NoUpdate ==
    [type |-> "none", content_index |-> 0, delta |-> <<>>, content |-> OutputText(<<>>),
     annotation_index |-> 0, annotation |-> ""]

TextDelta(i, d) ==
    [NoUpdate EXCEPT !.type = "assistant_message.content_part.text_delta",
                     !.content_index = i, !.delta = d]

ContentPartAdded(i, c) ==
    [NoUpdate EXCEPT !.type = "assistant_message.content_part.added",
                     !.content_index = i, !.content = c]

ContentPartDone(i, c) ==
    [NoUpdate EXCEPT !.type = "assistant_message.content_part.done",
                     !.content_index = i, !.content = c]

AnnotationAdded(i, j, a) ==
    [NoUpdate EXCEPT !.type = "assistant_message.content_part.annotation_added",
                     !.content_index = i, !.annotation_index = j, !.annotation = a]

WidgetTextDelta ==
    [NoUpdate EXCEPT !.type = "widget.streaming_text.value_delta"]

\* A protocol event.  item_id is the item's id for the events that carry an
\* item; items is the item list of a thread snapshot.
Event(type) ==
    [type |-> type, item |-> NoItem, item_id |-> "", update |-> NoUpdate,
     items |-> <<>>, code |-> "", message |-> "", allowRetry |-> FALSE]

ItemAdded(it)    == [Event("thread.item.added") EXCEPT !.item = it, !.item_id = it.id]
ItemDone(it)     == [Event("thread.item.done") EXCEPT !.item = it, !.item_id = it.id]
ItemReplaced(it) == [Event("thread.item.replaced") EXCEPT !.item = it, !.item_id = it.id]
ItemRemoved(id)  == [Event("thread.item.removed") EXCEPT !.item_id = id]
ItemUpdated(id, u) == [Event("thread.item.updated") EXCEPT !.item_id = id, !.update = u]
ProgressUpdate   == Event("progress_update")
StreamOptionsEvent == Event("stream_options")
ThreadCreatedEvent(items) == [Event("thread.created") EXCEPT !.items = items]
ThreadUpdatedEvent(items) == [Event("thread.updated") EXCEPT !.items = items]
ErrorEvent(code, message, allowRetry) ==
    [Event("error") EXCEPT !.code = code, !.message = message, !.allowRetry = allowRetry]

NoEvent == Event("none")

-----------------------------------------------------------------------------
(* The Store: id generation and the in-memory implementation *)

ID_PREFIXES ==
    [thread |-> "thr", message |-> "msg", tool_call |-> "tc", workflow |-> "wf",
     task |-> "tsk", attachment |-> "atc", sdk_hidden_context |-> "shcx"]

\* defaultGenerateId: the id returned once idCounter has been incremented to n
defaultGenerateId(itemType, n) == ID_PREFIXES[itemType] \o "_" \o ToHex(n)

\* InMemoryStore.loadThreadItems: one page of a thread's items
loadThreadItems(st, threadId, after, limit, order) ==
    LET all0 == IF threadId \in DOMAIN st THEN st[threadId] ELSE <<>>
        all == IF order = "desc" THEN Reverse(all0) ELSE all0
        idx == IF after = "" THEN -1 ELSE FindIndex(all, after)
        startIndex == IF idx >= 0 THEN idx + 1 ELSE 0
        slice == Slice(all, startIndex, startIndex + limit)
    IN  [data |-> slice,
         has_more |-> startIndex + limit < Len(all),
         after |-> IF slice = <<>> THEN "" ELSE slice[Len(slice)].id]

\* InMemoryStore.addThreadItem: push the item at the end of the thread
addThreadItem(st, threadId, item) ==
    [st EXCEPT ![threadId] = Append(@, item)]

\* InMemoryStore.saveItem: replace the item with that id in place, or push it
saveItem(st, threadId, item) ==
    LET idx == FindIndex(st[threadId], item.id)
    IN  IF idx >= 0
        THEN [st EXCEPT ![threadId] = [@ EXCEPT ![idx + 1] = item]]
        ELSE [st EXCEPT ![threadId] = Append(@, item)]

\* InMemoryStore.deleteThreadItem: drop every item with that id
deleteThreadItem(st, threadId, itemId) ==
    IF threadId \notin DOMAIN st THEN st
    ELSE LET keep(i) == i.id # itemId
         IN  [st EXCEPT ![threadId] = Filter(@, keep)]

\* InMemoryStore.saveThread: create the thread, or keep its items
saveThread(st, threadId) ==
    IF threadId \in DOMAIN st THEN st
    ELSE [t \in DOMAIN st \cup {threadId} |-> IF t = threadId THEN <<>> ELSE st[t]]

\* A call of one of the store's item-writing methods
StoreCall(op, item, id) == [op |-> op, item |-> item, id |-> id]

ApplyCall(st, threadId, c) ==
    CASE c.op = "addThreadItem" -> addThreadItem(st, threadId, c.item)
      [] c.op = "saveItem" -> saveItem(st, threadId, c.item)
      [] c.op = "deleteThreadItem" -> deleteThreadItem(st, threadId, c.id)

RECURSIVE ApplyCalls(_, _, _)
ApplyCalls(st, threadId, calls) ==
    IF calls = <<>> THEN st
    ELSE ApplyCalls(ApplyCall(st, threadId, Head(calls)), threadId, Tail(calls))

\* history of the store's item writes: each call with its caller and the number
\* of events the consumer had received when it was made
Logged(by, calls, n) ==
    [i \in 1..Len(calls) |->
        [by |-> by, op |-> calls[i].op, item |-> calls[i].item, id |-> calls[i].id,
         at |-> n]]

-----------------------------------------------------------------------------
(* ChatKitServer helpers *)

isHidden(item) ==
    item.type = "hidden_context" \/ item.type = "sdk_hidden_context"

\* variant: the item list is sent as it is
toThreadResponse_Unfiltered(items) == items

\* toThreadResponse: the thread's item list as sent to a client
toThreadResponse(items) == Filter(items, LAMBDA item : ~isHidden(item))

\* loadFullThread: the first page of the thread's items, oldest first
loadFullThread(st, threadId) ==
    loadThreadItems(st, threadId, "", DEFAULT_PAGE_SIZE, "asc").data

\* pendingItems[id] = item: a new key goes last, an existing key keeps its place
PendingSet(pend, item) ==
    IF FindIndex(pend, item.id) >= 0
    THEN [pend EXCEPT ![FindIndex(pend, item.id) + 1] = item]
    ELSE Append(pend, item)

\* delete pendingItems[id]
PendingDelete(pend, id) == Filter(pend, LAMBDA item : item.id # id)

PendingHas(pend, id) == FindIndex(pend, id) >= 0

PendingGet(pend, id) == pend[FindIndex(pend, id) + 1]

\* variant: every pending item is appended, durable or not
buildThreadResponseWithPending_NoSeen(st, threadId, pend) ==
    toThreadResponse(loadFullThread(st, threadId) \o pend)

\* buildThreadResponseWithPending: the durable first page, then the pending
\* items whose ids are not on it, hidden items filtered out
buildThreadResponseWithPending(st, threadId, pend) ==
    LET fullThread == loadFullThread(st, threadId)
        seen == { fullThread[i].id : i \in DOMAIN fullThread }
        pendingList == Filter(pend, LAMBDA item : item.id \notin seen)
    IN  toThreadResponse(fullThread \o pendingList)

\* applyAssistantMessageUpdate
RECURSIVE PadContent(_, _)
PadContent(content, index) ==
    IF Len(content) <= index
    THEN PadContent(Append(content, OutputText(<<>>)), index)
    ELSE content

\* Array.prototype.splice(index, 0, x) for index <= length
InsertAt(s, index, x) ==
    SubSeq(s, 1, index) \o <<x>> \o SubSeq(s, index + 1, Len(s))

\* variant: the annotation is put in front of the others, whatever its index
applyAssistantMessageUpdate_SpliceAnywhere(item, update) ==
    IF update.type \notin
         {"assistant_message.content_part.added",
          "assistant_message.content_part.text_delta",
          "assistant_message.content_part.annotation_added",
          "assistant_message.content_part.done"}
    THEN item   \* no content_index: nothing is padded and no case matches
    ELSE
    LET i == update.content_index + 1
        padded == PadContent(item.content, update.content_index)
        part == padded[i]
        newPart ==
            CASE update.type = "assistant_message.content_part.added" -> update.content
              [] update.type = "assistant_message.content_part.done" -> update.content
              [] update.type = "assistant_message.content_part.text_delta" ->
                    [part EXCEPT !.text = @ \o update.delta]
              [] update.type = "assistant_message.content_part.annotation_added" ->
                    [part EXCEPT !.annotations =
                        InsertAt(@, 0,
                                 update.annotation)]
    IN  [item EXCEPT !.content = [padded EXCEPT ![i] = newPart]]

\* variant: a text delta goes before the text of the part
applyAssistantMessageUpdate_DeltaPrepended(item, update) ==
    IF update.type \notin
         {"assistant_message.content_part.added",
          "assistant_message.content_part.text_delta",
          "assistant_message.content_part.annotation_added",
          "assistant_message.content_part.done"}
    THEN item   \* no content_index: nothing is padded and no case matches
    ELSE
    LET i == update.content_index + 1
        padded == PadContent(item.content, update.content_index)
        part == padded[i]
        newPart ==
            CASE update.type = "assistant_message.content_part.added" -> update.content
              [] update.type = "assistant_message.content_part.done" -> update.content
              [] update.type = "assistant_message.content_part.text_delta" ->
                    [part EXCEPT !.text = update.delta \o @]
              [] update.type = "assistant_message.content_part.annotation_added" ->
                    [part EXCEPT !.annotations =
                        IF update.annotation_index <= Len(@)
                        THEN InsertAt(@, update.annotation_index, update.annotation)
                        ELSE Append(@, update.annotation)]
    IN  [item EXCEPT !.content = [padded EXCEPT ![i] = newPart]]

applyAssistantMessageUpdate(item, update) ==
    IF update.type \notin
         {"assistant_message.content_part.added",
          "assistant_message.content_part.text_delta",
          "assistant_message.content_part.annotation_added",
          "assistant_message.content_part.done"}
    THEN item   \* no content_index: nothing is padded and no case matches
    ELSE
    LET i == update.content_index + 1
        padded == PadContent(item.content, update.content_index)
        part == padded[i]
        newPart ==
            CASE update.type = "assistant_message.content_part.added" -> update.content
              [] update.type = "assistant_message.content_part.done" -> update.content
              [] update.type = "assistant_message.content_part.text_delta" ->
                    [part EXCEPT !.text = @ \o update.delta]
              [] update.type = "assistant_message.content_part.annotation_added" ->
                    [part EXCEPT !.annotations =
                        IF update.annotation_index <= Len(@)
                        THEN InsertAt(@, update.annotation_index, update.annotation)
                        ELSE Append(@, update.annotation)]
    IN  [item EXCEPT !.content = [padded EXCEPT ![i] = newPart]]

\* cleanupPendingClientToolCall: delete the pending client tool calls found on
\* the newest page of the thread
StalePendingToolCalls(st, threadId) ==
    Filter(loadThreadItems(st, threadId, "", DEFAULT_PAGE_SIZE, "desc").data,
           LAMBDA item : item.type = "client_tool_call" /\ item.status = "pending")

cleanupPendingClientToolCall(st, threadId) ==
    LET stale == StalePendingToolCalls(st, threadId)
    IN  [i \in 1..Len(stale) |-> StoreCall("deleteThreadItem", NoItem, stale[i].id)]

\* InMemoryStore.loadThread: a copy of the stored metadata (the thread is created
\* with no title if the store does not hold it)
loadThread(titles, threadId) ==
    IF threadId \in DOMAIN titles THEN titles[threadId] ELSE ""

\* InMemoryStore.saveThread, for the metadata: the store keeps a copy of it
saveThreadTitle(titles, threadId, t) ==
    [x \in DOMAIN titles \cup {threadId} |-> IF x = threadId THEN t ELSE titles[x]]

\* the stream argument of processEvents: a closure over the turn source to
\* call and the item it is called with
NoStream == [kind |-> "none", input |-> NoItem]

\* () => this.respond(thread, item, context)
Respond(item) == [kind |-> "respond", input |-> item]

\* () => this.action(thread, action, item ?? null, context)
Action(item) == [kind |-> "action", input |-> item]

\* no call of the turn source has been made
NoInvocation == [kind |-> "none", input |-> NoItem, at |-> 0, items |-> <<>>]

\* thread !== lastThread in processEvents: lastThread is initialised to thread
\* and thread is never reassigned, so both always name the same object
threadChanged == FALSE

-----------------------------------------------------------------------------
(* Inputs *)

ExistingThread == "thr_x"

\* items a thread may hold before the request arrives
U0 == UserMessage("u0")
S0 == SDKHiddenContext("s0", CANCEL_MESSAGE)
C0 == HiddenContext("c0", "ctx")

InitialItems == { <<>>, <<U0, S0, C0>> }

\* the items and events a turn source may produce
A0 == AssistantMessage("a1", <<>>)
A1 == AssistantMessage("a1", <<OutputText(<<"a">>)>>)
H1 == HiddenContext("h1", "ctx")
H2 == SDKHiddenContext("h2", "ctx")
W1 == WidgetItem("w1")

SourceEvents ==
    { ItemAdded(A0), ItemAdded(H1), ItemAdded(W1),
      ItemUpdated("a1", TextDelta(0, <<"a">>)),
      ItemUpdated("a1", TextDelta(0, <<" ">>)),
      ItemUpdated("a1", WidgetTextDelta),
      ItemUpdated("w1", WidgetTextDelta),
      ItemDone(A1), ItemDone(H1), ItemDone(H2),
      ItemRemoved("a1"),
      ItemReplaced(A1), ItemReplaced(H1),
      ProgressUpdate }

\* the events of a turn source that streams one assistant message
Part(text, annotations) == [OutputText(text) EXCEPT !.annotations = annotations]

AssistantParts == { Part(<<"c">>, <<>>), Part(<<"d">>, <<"n0">>) }

AssistantUpdates ==
    { ContentPartAdded(i, c) : i \in {0, 2}, c \in AssistantParts }
    \cup { ContentPartDone(1, Part(<<"d">>, <<"n0">>)) }
    \cup { TextDelta(i, <<"b">>) : i \in {0, 2} }
    \cup { TextDelta(0, <<"c">>) }
    \cup { AnnotationAdded(i, j, a) : i \in {0, 1}, j \in 0..2, a \in {"n1", "n2"} }

AssistantEvents ==
    { ItemAdded(A0), ItemAdded(A1) }
    \cup { ItemUpdated("a1", u) : u \in AssistantUpdates }

\* the exceptions a turn source may raise.  options is the constructor's
\* allowRetry option: <<>> when it is not given (or null), <<b>> when it is b
NoError == [class |-> "none", message |-> "", code |-> "", options |-> <<>>,
            allowRetry |-> FALSE]

ErrorCode == [STREAM_ERROR |-> "stream.error"]

\* DEFAULT_ALLOW_RETRY[code] ?? false
DEFAULT_ALLOW_RETRY(code) == IF code = ErrorCode.STREAM_ERROR THEN TRUE ELSE FALSE

\* new StreamError(code, { allowRetry })
StreamError(code, options) ==
    [class |-> "StreamError", message |-> "", code |-> code, options |-> options,
     allowRetry |-> IF options # <<>> THEN options[1] ELSE DEFAULT_ALLOW_RETRY(code)]

\* variant: a custom error is retryable unless told otherwise
CustomStreamError_RetryByDefault(message, options) ==
    [class |-> "CustomStreamError", message |-> message, code |-> "",
     options |-> options,
     allowRetry |-> IF options # <<>> THEN options[1] ELSE TRUE]

\* new CustomStreamError(message, { allowRetry })
CustomStreamError(message, options) ==
    [class |-> "CustomStreamError", message |-> message, code |-> "",
     options |-> options,
     allowRetry |-> IF options # <<>> THEN options[1] ELSE FALSE]

\* new Error(message)
GenericError(message) ==
    [class |-> "Error", message |-> message, code |-> "", options |-> <<>>,
     allowRetry |-> FALSE]

SourceErrors ==
    { GenericError("boom"),
      StreamError(ErrorCode.STREAM_ERROR, <<FALSE>>),
      CustomStreamError("custom", <<TRUE>>) }

\* every way of constructing an exception from a few messages and options
ErrorMessages == {"", "boom", "custom"}

RetryOptions == { <<>>, <<TRUE>>, <<FALSE>> }

ConstructedErrors ==
    { GenericError(m) : m \in ErrorMessages }
    \cup { StreamError(ErrorCode.STREAM_ERROR, o) : o \in RetryOptions }
    \cup { CustomStreamError(m, o) : m \in ErrorMessages, o \in RetryOptions }

StreamingRequests ==
    { [type |-> "threads.create", thread_id |-> "", after |-> "", limit |-> 0,
       order |-> ""],
      [type |-> "threads.add_user_message", thread_id |-> ExistingThread, after |-> "",
       limit |-> 0, order |-> ""] }

NonStreamingRequests ==
    { [type |-> "threads.get_by_id", thread_id |-> ExistingThread, after |-> "",
       limit |-> 0, order |-> ""] }
    \cup
    { [type |-> "items.list", thread_id |-> ExistingThread, after |-> a, limit |-> l,
       order |-> o] : a \in {"", "u0"}, l \in {1, DEFAULT_PAGE_SIZE}, o \in {"asc", "desc"} }

\* items a thread may hold when a request of the other streaming kinds arrives
U1 == UserMessage("u1")
D0 == AssistantMessage("d0", <<OutputText(<<"a">>)>>)
T0 == ClientToolCall("t0", "pending", "")
T1 == ClientToolCall("t1", "pending", "")
W0 == WidgetItem("w0")

RouterItems == { <<U0, D0, U1, T0, W0>>, <<U0, T1, U1, W0, T0>> }

RouterRequests ==
    { [type |-> "threads.add_client_tool_output", thread_id |-> ExistingThread,
       item_id |-> "", result |-> "ok"] }
    \cup
    { [type |-> "threads.retry_after_item", thread_id |-> ExistingThread,
       item_id |-> i, result |-> ""] : i \in {"u1", "w0", "zz"} }
    \cup
    { [type |-> "threads.custom_action", thread_id |-> ExistingThread,
       item_id |-> i, result |-> ""] : i \in {"", "w0", "u0", "zz"} }

NoRequest == [type |-> "none", thread_id |-> "", after |-> "", limit |-> 0, order |-> ""]

-----------------------------------------------------------------------------
(* Widgets: components, fullReplace and diffWidget *)

\* a property that holds a number, a plain object (Spacing) or nothing.  A
\* plain object has an identity, ref: !== tells two objects apart by it
NoPadding == [kind |-> "undefined", ref |-> 0, x |-> 0]
Spacing(ref, x) == [kind |-> "object", ref |-> ref, x |-> x]

\* a component.  id and key are "" when the property is not set; streaming is
\* "undefined", "true" or "false"; a string is the sequence of its characters
Component(type) ==
    [type |-> type, id |-> "", key |-> "", value |-> <<>>,
     streaming |-> "undefined", padding |-> NoPadding, children |-> <<>>]

Text(id, value, streaming) ==
    [Component("Text") EXCEPT !.id = id, !.value = value, !.streaming = streaming]

Card(padding, children) ==
    [Component("Card") EXCEPT !.padding = padding, !.children = children]

NoWidget == Component("none")

\* String.prototype.startsWith and String.prototype.slice
startsWith(s, prefix) ==
    Len(prefix) <= Len(s) /\ SubSeq(s, 1, Len(prefix)) = prefix

slice(s, start) == SubSeq(s, start + 1, Len(s))

\* isStreamingText: every Text component modelled here holds a string value
isStreamingText(component) == component.type = "Text"

\* beforeValue !== afterValue for a value that is no array and no component
notSame(beforeValue, afterValue) ==
    IF beforeValue.kind = "object" /\ afterValue.kind = "object"
    THEN beforeValue.ref # afterValue.ref
    ELSE beforeValue # afterValue

\* fullReplace: the loop over the fields, each field by the rule that applies
\* to the values it holds (children an array of components, padding a plain
\* value, value and streaming primitive)
\* variant: any change of a text value is left to the deltas
valueExempt_AnyChange(before, after) ==
    isStreamingText(before) /\ isStreamingText(after)

\* the value field is skipped: an append to the value of a Text component
valueExempt(before, after) ==
    /\ isStreamingText(before)
    /\ isStreamingText(after)
    /\ startsWith(after.value, before.value)

RECURSIVE fullReplace(_, _)
fullReplace(before, after) ==
    IF before.type # after.type \/ before.id # after.id \/ before.key # after.key
    THEN TRUE
    ELSE
    LET bothText == isStreamingText(before) /\ isStreamingText(after)
        valueReplaces ==
            /\ ~valueExempt(before, after)
            /\ before.value # after.value
        streamingReplaces ==
            /\ ~bothText
            /\ before.streaming # after.streaming
        paddingReplaces == notSame(before.padding, after.padding)
        childrenReplace ==
            \/ Len(before.children) # Len(after.children)
            \/ \E i \in DOMAIN before.children :
                 fullReplace(before.children[i], after.children[i])
    IN  valueReplaces \/ streamingReplaces \/ paddingReplaces \/ childrenReplace

\* findAllStreamingTextComponents.recurse: the id-bearing text nodes in the
\* order they are visited
RECURSIVE recurse(_)
RECURSIVE recurseAll(_)
recurse(comp) ==
    (IF isStreamingText(comp) /\ comp.id # "" THEN <<comp>> ELSE <<>>)
    \o recurseAll(comp.children)

recurseAll(children) ==
    IF children = <<>> THEN <<>>
    ELSE recurse(Head(children)) \o recurseAll(Tail(children))

\* Object.entries of the record recurse fills: each id once, in the order
\* the ids were first set, with the node that was set last
RECURSIVE entryIds(_)
entryIds(nodes) ==
    IF nodes = <<>> THEN <<>>
    ELSE LET front == entryIds(SubSeq(nodes, 1, Len(nodes) - 1))
             id == nodes[Len(nodes)].id
         IN  IF \E i \in DOMAIN front : front[i] = id THEN front ELSE Append(front, id)

hasNode(nodes, id) == \E i \in DOMAIN nodes : nodes[i].id = id

nodeOf(nodes, id) ==
    nodes[CHOOSE i \in DOMAIN nodes :
            /\ nodes[i].id = id
            /\ \A j \in DOMAIN nodes : j > i => nodes[j].id # id]

findAllStreamingTextComponents(component) == recurse(component)

\* the two kinds of update diffWidget produces
WidgetRootUpdated(w) ==
    [type |-> "widget.root.updated", widget |-> w, component_id |-> "",
     delta |-> <<>>, done |-> FALSE]

WidgetStreamingTextValueDelta(id, delta, done) ==
    [type |-> "widget.streaming_text.value_delta", widget |-> NoWidget,
     component_id |-> id, delta |-> delta, done |-> done]

\* what a call produces: the array it returns or the Error it throws
NotCalled == [kind |-> "none", deltas |-> <<>>, error |-> ""]
Returned(deltas) == [kind |-> "returned", deltas |-> deltas, error |-> ""]
Threw(error) == [kind |-> "threw", deltas |-> <<>>, error |-> error]

\* variant: a text node whose value did not change yields a delta as well
diffWidget_DeltaForEveryNode(before, after) ==
    IF fullReplace(before, after)
    THEN Returned(<<WidgetRootUpdated(after)>>)
    ELSE
    LET beforeNodes == findAllStreamingTextComponents(before)
        afterNodes == findAllStreamingTextComponents(after)
        ids == entryIds(afterNodes)
        missing(i) == ~hasNode(beforeNodes, ids[i])
        notCumulative(i) ==
            /\ hasNode(beforeNodes, ids[i])
            /\ ~startsWith(nodeOf(afterNodes, ids[i]).value,
                           nodeOf(beforeNodes, ids[i]).value)
        bad == { i \in DOMAIN ids : missing(i) \/ notCumulative(i) }
        first == CHOOSE i \in bad : \A j \in bad : i <= j
    IN  IF bad # {}
        THEN Threw(IF missing(first) THEN "was not present" ELSE "not a prefix")
        ELSE Returned([ i \in DOMAIN ids |->
                 WidgetStreamingTextValueDelta(ids[i],
                     slice(nodeOf(afterNodes, ids[i]).value,
                           Len(nodeOf(beforeNodes, ids[i]).value)),
                     nodeOf(afterNodes, ids[i]).streaming # "true") ])

\* diffWidget
diffWidget(before, after) ==
    IF fullReplace(before, after)
    THEN Returned(<<WidgetRootUpdated(after)>>)
    ELSE
    LET beforeNodes == findAllStreamingTextComponents(before)
        afterNodes == findAllStreamingTextComponents(after)
        ids == entryIds(afterNodes)
        missing(i) == ~hasNode(beforeNodes, ids[i])
        notCumulative(i) ==
            /\ hasNode(beforeNodes, ids[i])
            /\ ~startsWith(nodeOf(afterNodes, ids[i]).value,
                           nodeOf(beforeNodes, ids[i]).value)
        bad == { i \in DOMAIN ids : missing(i) \/ notCumulative(i) }
        first == CHOOSE i \in bad : \A j \in bad : i <= j
        changed == SelectSeq(ids, LAMBDA id :
                       nodeOf(beforeNodes, id).value # nodeOf(afterNodes, id).value)
    IN  IF bad # {}
        THEN Threw(IF missing(first) THEN "was not present" ELSE "not a prefix")
        ELSE Returned([ i \in DOMAIN changed |->
                 WidgetStreamingTextValueDelta(changed[i],
                     slice(nodeOf(afterNodes, changed[i]).value,
                           Len(nodeOf(beforeNodes, changed[i]).value)),
                     nodeOf(afterNodes, changed[i]).streaming # "true") ])

-----------------------------------------------------------------------------
(* Widgets: streamWidget *)

\* the widget item and the events streamWidget yields
StreamedWidgetItem(id, w) == [id |-> id, type |-> "widget", widget |-> w]

NoWidgetItem == StreamedWidgetItem("", NoWidget)

WidgetEvent(type) ==
    [type |-> type, item |-> NoWidgetItem, item_id |-> "",
     update |-> WidgetRootUpdated(NoWidget)]

WidgetItemAdded(it) == [WidgetEvent("thread.item.added") EXCEPT !.item = it]
WidgetItemDone(it) == [WidgetEvent("thread.item.done") EXCEPT !.item = it]
WidgetItemUpdated(id, u) ==
    [WidgetEvent("thread.item.updated") EXCEPT !.item_id = id, !.update = u]

\* the widget argument: one widget, or a generator and the snapshots it yields
NoWidgetArg == [kind |-> "none", widget |-> NoWidget, states |-> <<>>]
SingleWidget(w) == [kind |-> "widget", widget |-> w, states |-> <<>>]
WidgetGenerator(states) == [kind |-> "generator", widget |-> NoWidget, states |-> states]

\* typeof widget[Symbol.asyncIterator] === "function"
isAsyncIterable(w) == w.kind = "generator"

\* variant: a single widget is announced before it is done
SingleWidgetEvents_AddedFirst(id, w) ==
    <<WidgetItemAdded(StreamedWidgetItem(id, w)),
      WidgetItemDone(StreamedWidgetItem(id, w))>>

\* the events yielded for a widget that is no generator
SingleWidgetEvents(id, w) == <<WidgetItemDone(StreamedWidgetItem(id, w))>>

\* variant: only the first update of a diff is yielded
UpdateEvents_FirstOnly(id, updates) ==
    [ i \in DOMAIN SubSeq(updates, 1, Min(1, Len(updates))) |->
        WidgetItemUpdated(id, updates[i]) ]

\* the loop over the updates of one diff
UpdateEvents(id, updates) ==
    [ i \in DOMAIN updates |-> WidgetItemUpdated(id, updates[i]) ]

\* the call up to its first suspension: the id, then either the single done
\* event or the generator's first snapshot
StreamWidgetStart ==
    /\ pc = "streamWidget"
    /\ idCounter' = idCounter + 1
    /\ widgetItemId' = defaultGenerateId("message", idCounter')
    /\ IF ~isAsyncIterable(widgetArg)
       THEN /\ widgetOut' = SingleWidgetEvents(widgetItemId', widgetArg.widget)
            /\ pc' = "widgetReturned"
            /\ UNCHANGED <<asyncGen, lastState>>
       ELSE IF asyncGen = <<>>
       THEN /\ pc' = "widgetReturned"
            /\ UNCHANGED <<widgetOut, asyncGen, lastState>>
       ELSE /\ widgetOut' = <<WidgetItemAdded(
                                StreamedWidgetItem(widgetItemId', Head(asyncGen)))>>
            /\ lastState' = Head(asyncGen)
            /\ asyncGen' = Tail(asyncGen)
            /\ pc' = "widgetLoop"
    /\ UNCHANGED <<serverVars, queueVars, diffBefore, diffAfter, diffResult, widgetArg>>

\* one iteration of the loop: the generator's next snapshot and its updates
StreamWidgetNext ==
    /\ pc = "widgetLoop"
    /\ asyncGen # <<>>
    /\ LET updates == diffWidget(lastState, Head(asyncGen))
       IN  IF updates.kind = "threw"
           THEN /\ pc' = "widgetThrew"
                /\ UNCHANGED <<widgetOut, lastState>>
           ELSE /\ widgetOut' = widgetOut \o UpdateEvents(widgetItemId, updates.deltas)
                /\ lastState' = Head(asyncGen)
                /\ pc' = "widgetLoop"
    /\ asyncGen' = Tail(asyncGen)
    /\ UNCHANGED <<serverVars, queueVars, idCounter, diffBefore, diffAfter, diffResult,
                   widgetArg, widgetItemId>>

\* the generator is exhausted: the done event with the last snapshot
StreamWidgetDone ==
    /\ pc = "widgetLoop"
    /\ asyncGen = <<>>
    /\ widgetOut' = Append(widgetOut,
           WidgetItemDone(StreamedWidgetItem(widgetItemId, lastState)))
    /\ pc' = "widgetReturned"
    /\ UNCHANGED <<serverVars, queueVars, idCounter, diffBefore, diffAfter, diffResult,
                   widgetArg, asyncGen, lastState, widgetItemId>>

\* a call of diffWidget
DiffWidget ==
    /\ pc = "diffWidget"
    /\ diffResult' = diffWidget(diffBefore, diffAfter)
    /\ pc' = "diffed"
    /\ UNCHANGED <<serverVars, queueVars, idCounter, diffBefore, diffAfter, widgetArg,
                   asyncGen, lastState, widgetItemId, widgetOut>>

-----------------------------------------------------------------------------
(* AsyncQueue *)

\* an IteratorResult, with how it reached the consumer: straight from next()
\* ("next") or through the promise next() had left pending ("resolver")
IteratorValue(value, via) == [value |-> value, done |-> FALSE, via |-> via]
IteratorDone(via) == [value |-> "", done |-> TRUE, via |-> via]

\* variant: next() looks at the done flag before it looks at the items
iteratorNext_DoneFirst(buffered, isDone) ==
    IF isDone THEN "done"
    ELSE IF Len(buffered) > 0 THEN "value"
    ELSE "pending"

\* the branch the iterator's next() takes
iteratorNext(buffered, isDone) ==
    IF Len(buffered) > 0 THEN "value"
    ELSE IF isDone THEN "done"
    ELSE "pending"

QueuePcs == {"queue", "queueWaiting", "queueFinished"}

\* the items handed to enqueue
QueueValues == {"x", "y"}

\* variant: enqueue buffers the item even if a next() is pending
enqueueBranch_AlwaysBuffer(isDone, waiting) ==
    IF isDone THEN "return"
    ELSE "buffer"

\* variant: enqueue does not look at the done flag
enqueueBranch_AfterDone(isDone, waiting) ==
    IF Len(waiting) > 0 THEN "resolve"
    ELSE "buffer"

\* the branch enqueue takes
enqueueBranch(isDone, waiting) ==
    IF isDone THEN "return"
    ELSE IF Len(waiting) > 0 THEN "resolve"
    ELSE "buffer"

\* enqueue(item)
Enqueue ==
    /\ pc \in QueuePcs
    /\ Len(enqueued) < MaxEnqueues
    /\ \E item \in QueueValues :
         /\ enqueued' = Append(enqueued, [item |-> item, completed |-> queueDone])
         /\ LET branch == enqueueBranch(queueDone, resolvers)
            IN  CASE branch = "return" ->
                       UNCHANGED <<queueItems, resolvers, delivered, pc>>
                  [] branch = "resolve" ->
                       /\ resolvers' = Tail(resolvers)
                       /\ delivered' = Append(delivered, IteratorValue(item, "resolver"))
                       /\ pc' = "queue"
                       /\ UNCHANGED queueItems
                  [] branch = "buffer" ->
                       /\ queueItems' = Append(queueItems, item)
                       /\ UNCHANGED <<resolvers, delivered, pc>>
    /\ UNCHANGED <<serverVars, widgetVars, idCounter, queueDone>>

\* complete()
Complete ==
    /\ pc \in QueuePcs
    /\ IF queueDone
       THEN UNCHANGED <<queueDone, resolvers, delivered, pc>>
       ELSE /\ queueDone' = TRUE
            /\ delivered' = delivered \o [ i \in DOMAIN resolvers |-> IteratorDone("resolver") ]
            /\ resolvers' = <<>>
            /\ pc' = IF resolvers # <<>> THEN "queueFinished" ELSE pc
    /\ UNCHANGED <<serverVars, widgetVars, idCounter, queueItems, enqueued>>

\* the consumer's next(): one turn of its for-await loop
IteratorNext ==
    /\ pc = "queue"
    /\ LET branch == iteratorNext(queueItems, queueDone)
       IN  CASE branch = "value" ->
                  /\ delivered' = Append(delivered, IteratorValue(Head(queueItems), "next"))
                  /\ queueItems' = Tail(queueItems)
                  /\ UNCHANGED <<resolvers, pc>>
             [] branch = "done" ->
                  /\ delivered' = Append(delivered, IteratorDone("next"))
                  /\ pc' = "queueFinished"
                  /\ UNCHANGED <<queueItems, resolvers>>
             [] branch = "pending" ->
                  /\ resolvers' = Append(resolvers, "resolve")
                  /\ pc' = "queueWaiting"
                  /\ UNCHANGED <<queueItems, delivered>>
    /\ UNCHANGED <<serverVars, widgetVars, idCounter, queueDone, enqueued>>

\* several consumers on one queue.  A result is tagged with the consumer it
\* went to; resolvers holds, for each pending next(), the consumer that waits
Consumers == {"c1", "c2"}

To(consumer, result) ==
    [value |-> result.value, done |-> result.done, via |-> result.via, to |-> consumer]

Waiting(consumer) == \E i \in DOMAIN resolvers : resolvers[i] = consumer

Finished(consumer) ==
    \E i \in DOMAIN delivered : delivered[i].to = consumer /\ delivered[i].done

\* variant: complete() resolves the oldest pending next() only
resolvedByComplete_OldestOnly(waiting) == SubSeq(waiting, 1, Min(1, Len(waiting)))

\* the pending next() calls complete() resolves: the loop shifts them all
resolvedByComplete(waiting) == waiting

\* enqueue(item), several consumers
SharedEnqueue ==
    /\ pc = "consumers"
    /\ Len(enqueued) < MaxEnqueues
    /\ \E item \in QueueValues :
         /\ enqueued' = Append(enqueued, [item |-> item, completed |-> queueDone])
         /\ LET branch == enqueueBranch(queueDone, resolvers)
            IN  CASE branch = "return" ->
                       UNCHANGED <<queueItems, resolvers, delivered>>
                  [] branch = "resolve" ->
                       /\ resolvers' = Tail(resolvers)
                       /\ delivered' = Append(delivered,
                              To(Head(resolvers), IteratorValue(item, "resolver")))
                       /\ UNCHANGED queueItems
                  [] branch = "buffer" ->
                       /\ queueItems' = Append(queueItems, item)
                       /\ UNCHANGED <<resolvers, delivered>>
    /\ UNCHANGED <<serverVars, widgetVars, idCounter, pc, queueDone>>

\* complete(), several consumers
SharedComplete ==
    /\ pc = "consumers"
    /\ IF queueDone
       THEN UNCHANGED <<queueDone, resolvers, delivered>>
       ELSE LET resolved == resolvedByComplete(resolvers)
            IN  /\ queueDone' = TRUE
                /\ delivered' = delivered \o
                      [ i \in DOMAIN resolved |-> To(resolved[i], IteratorDone("resolver")) ]
                /\ resolvers' = SubSeq(resolvers, Len(resolved) + 1, Len(resolvers))
    /\ UNCHANGED <<serverVars, widgetVars, idCounter, pc, queueItems, enqueued>>

\* next() of a consumer whose last next() has resolved with a value
SharedNext ==
    /\ pc = "consumers"
    /\ \E c \in Consumers :
         /\ ~Waiting(c)
         /\ ~Finished(c)
         /\ LET branch == iteratorNext(queueItems, queueDone)
            IN  CASE branch = "value" ->
                       /\ delivered' = Append(delivered,
                              To(c, IteratorValue(Head(queueItems), "next")))
                       /\ queueItems' = Tail(queueItems)
                       /\ UNCHANGED resolvers
                  [] branch = "done" ->
                       /\ delivered' = Append(delivered, To(c, IteratorDone("next")))
                       /\ UNCHANGED <<queueItems, resolvers>>
                  [] branch = "pending" ->
                       /\ resolvers' = Append(resolvers, c)
                       /\ UNCHANGED <<queueItems, delivered>>
    /\ UNCHANGED <<serverVars, widgetVars, idCounter, pc, queueDone, enqueued>>

\* the helpers before any of them is called
HelpersIdle ==
    /\ diffBefore = NoWidget
    /\ diffAfter = NoWidget
    /\ diffResult = NotCalled
    /\ widgetArg = NoWidgetArg
    /\ asyncGen = <<>>
    /\ lastState = NoWidget
    /\ widgetItemId = ""
    /\ widgetOut = <<>>
    /\ queueItems = <<>>
    /\ resolvers = <<>>
    /\ queueDone = FALSE
    /\ delivered = <<>>
    /\ enqueued = <<>>

-----------------------------------------------------------------------------
(* Initial state: the server is constructed over a store holding one thread *)

Init ==
    /\ \E items \in InitialItems : store = [t \in {ExistingThread} |-> items]
    /\ idCounter = 0
    /\ pc = "idle"
    /\ request = NoRequest
    /\ thread = ""
    /\ pendingItems = <<>>
    /\ event = NoEvent
    /\ emitThreadUpdate = FALSE
    /\ consumed = <<>>
    /\ out = <<>>
    /\ base = 0
    /\ raised = NoError
    /\ writes = <<>>
    /\ response = <<>>
    /\ cancelInput = <<>>
    /\ stream = NoStream
    /\ invoked = NoInvocation
    /\ title = ""
    /\ storedTitle = [t \in {ExistingThread} |-> "Old Title"]
    /\ HelpersIdle

-----------------------------------------------------------------------------
(* processNonStreaming *)

\* items.list: one page of the store, hidden context items filtered out
ItemsList ==
    /\ pc = "idle"
    /\ \E req \in NonStreamingRequests :
         /\ req.type = "items.list"
         /\ request' = req
         /\ response' = Filter(
               loadThreadItems(store, req.thread_id, req.after, req.limit, req.order).data,
               LAMBDA item : item.type # "hidden_context"
                             /\ item.type # "sdk_hidden_context")
    /\ pc' = "done"
    /\ UNCHANGED <<widgetVars, queueVars>>
    /\ UNCHANGED <<store, idCounter, thread, pendingItems, event, emitThreadUpdate,
                   consumed, out, base, writes, raised, cancelInput,
                   stream, invoked, title, storedTitle>>

\* threads.get_by_id: toThreadResponse(loadFullThread)
ThreadsGetById ==
    /\ pc = "idle"
    /\ \E req \in NonStreamingRequests :
         /\ req.type = "threads.get_by_id"
         /\ request' = req
         /\ response' = toThreadResponse(loadFullThread(store, req.thread_id))
    /\ pc' = "done"
    /\ UNCHANGED <<widgetVars, queueVars>>
    /\ UNCHANGED <<store, idCounter, thread, pendingItems, event, emitThreadUpdate,
                   consumed, out, base, writes, raised, cancelInput,
                   stream, invoked, title, storedTitle>>

-----------------------------------------------------------------------------
(* processStreamingImpl *)

\* threads.create, up to the yield of thread.created
ThreadsCreate ==
    /\ pc = "idle"
    /\ \E req \in StreamingRequests :
         /\ req.type = "threads.create"
         /\ request' = req
    /\ idCounter' = idCounter + 1
    /\ thread' = defaultGenerateId("thread", idCounter')
    /\ title' = ""
    /\ store' = saveThread(store, thread')
    /\ storedTitle' = saveThreadTitle(storedTitle, thread', title')
    /\ out' = Append(out, ThreadCreatedEvent(toThreadResponse(<<>>)))
    /\ pc' = "created"
    /\ UNCHANGED <<widgetVars, queueVars>>
    /\ UNCHANGED <<pendingItems, event, emitThreadUpdate, consumed, base, writes,
                   raised, response, cancelInput, stream, invoked>>

\* variant: the user message's done event is yielded before the item is stored
NewThreadItemRespond_YieldFirst(threadId) ==
    LET item == UserMessage(defaultGenerateId("message", idCounter + 1))
        add == <<StoreCall("addThreadItem", item, item.id)>>
        added == ApplyCalls(store, threadId, add)
        cleanup == cleanupPendingClientToolCall(added, threadId)
    IN  /\ idCounter' = idCounter + 1
        /\ store' = ApplyCalls(added, threadId, cleanup)
        /\ out' = Append(out, ItemDone(item))
        /\ writes' = writes \o Logged("router", add \o cleanup, Len(out'))
        /\ stream' = Respond(item)
        /\ pc' = "itemDone"

\* buildUserMessageItem and processNewThreadItemRespond, up to the yield of the
\* user message's thread.item.done
NewThreadItemRespond(threadId) ==
    LET item == UserMessage(defaultGenerateId("message", idCounter + 1))
        add == <<StoreCall("addThreadItem", item, item.id)>>
        added == ApplyCalls(store, threadId, add)
        cleanup == cleanupPendingClientToolCall(added, threadId)
    IN  /\ idCounter' = idCounter + 1
        /\ store' = ApplyCalls(added, threadId, cleanup)
        /\ writes' = writes \o Logged("router", add \o cleanup, Len(out))
        /\ out' = Append(out, ItemDone(item))
        /\ stream' = Respond(item)
        /\ pc' = "itemDone"

\* threads.create, after thread.created has been received
ThreadsCreateRespond ==
    /\ pc = "created"
    /\ NewThreadItemRespond(thread)
    /\ UNCHANGED <<widgetVars, queueVars>>
    /\ UNCHANGED <<request, thread, pendingItems, event, emitThreadUpdate, consumed,
                   base, raised, response, cancelInput, invoked, title, storedTitle>>

\* threads.add_user_message
ThreadsAddUserMessage ==
    /\ pc = "idle"
    /\ \E req \in StreamingRequests :
         /\ req.type = "threads.add_user_message"
         /\ request' = req
         /\ thread' = req.thread_id
         /\ title' = loadThread(storedTitle, req.thread_id)
         /\ NewThreadItemRespond(req.thread_id)
    /\ UNCHANGED <<widgetVars, queueVars>>
    /\ UNCHANGED <<pendingItems, event, emitThreadUpdate, consumed, base, raised, response,
                   cancelInput, invoked, storedTitle>>

\* the item or items.data.find(...) looks for
isPendingToolCall(item) ==
    item.type = "client_tool_call" /\ item.status = "pending"

\* variant: the tool call is given its output and left pending
completeToolCall_StaysPending(toolCall, result) ==
    [toolCall EXCEPT !.output = result]

\* toolCall.output = request.params.result; toolCall.status = "completed"
completeToolCall(toolCall, result) ==
    [toolCall EXCEPT !.output = result, !.status = "completed"]

\* threads.add_client_tool_output, up to the call of processEvents
ThreadsAddClientToolOutput ==
    /\ pc = "idle"
    /\ \E req \in RouterRequests :
         /\ req.type = "threads.add_client_tool_output"
         /\ request' = req
         /\ thread' = req.thread_id
         /\ title' = loadThread(storedTitle, req.thread_id)
         /\ LET items == loadThreadItems(store, req.thread_id, "", 1, "desc").data
                found == Filter(items, isPendingToolCall)
            IN  IF found = <<>>
                THEN \* throw new Error("Last thread item in ... was not a ClientToolCallItem")
                     /\ pc' = "threw"
                     /\ UNCHANGED <<store, writes, stream>>
                ELSE LET toolCall == completeToolCall(found[1], req.result)
                         save == <<StoreCall("saveItem", toolCall, toolCall.id)>>
                         saved == ApplyCalls(store, req.thread_id, save)
                         cleanup == cleanupPendingClientToolCall(saved, req.thread_id)
                     IN  /\ store' = ApplyCalls(saved, req.thread_id, cleanup)
                         /\ writes' = writes \o Logged("router", save \o cleanup, Len(out))
                         /\ stream' = Respond(NoItem)
                         /\ pc' = "itemDone"
    /\ UNCHANGED <<widgetVars, queueVars>>
    /\ UNCHANGED <<idCounter, pendingItems, event, emitThreadUpdate, consumed, out, base,
                   raised, response, cancelInput, invoked, storedTitle>>

\* paginateThreadItemsReverse: every item of the thread, page after page, each
\* page loaded in "asc" order
RECURSIVE paginateThreadItemsReverse(_, _, _)
paginateThreadItemsReverse(st, threadId, after) ==
    LET items == loadThreadItems(st, threadId, after, DEFAULT_PAGE_SIZE, "asc")
    IN  items.data \o (IF items.has_more
                       THEN paginateThreadItemsReverse(st, threadId, items.after)
                       ELSE <<>>)

\* variant: the turn is started although no target was found
retryScan_WithoutTarget(all, itemId) ==
    LET idx == FindIndex(all, itemId)
    IN  IF idx = -1
        THEN [outcome |-> "respond", itemsToRemove |-> all, userMessageItem |-> NoItem]
        ELSE IF all[idx + 1].type # "user_message"
        THEN [outcome |-> "throw", itemsToRemove |-> SubSeq(all, 1, idx),
              userMessageItem |-> NoItem]
        ELSE [outcome |-> "respond", itemsToRemove |-> SubSeq(all, 1, idx),
              userMessageItem |-> all[idx + 1]]

\* variant: the target is accepted whatever its type
retryScan_AnyTarget(all, itemId) ==
    LET idx == FindIndex(all, itemId)
    IN  IF idx = -1
        THEN [outcome |-> "none", itemsToRemove |-> all, userMessageItem |-> NoItem]
        ELSE [outcome |-> "respond", itemsToRemove |-> SubSeq(all, 1, idx),
              userMessageItem |-> all[idx + 1]]

\* the loop over the paginated items: the items met before the target are
\* collected; a target that is not a user message throws
retryScan(all, itemId) ==
    LET idx == FindIndex(all, itemId)
    IN  IF idx = -1
        THEN [outcome |-> "none", itemsToRemove |-> all, userMessageItem |-> NoItem]
        ELSE IF all[idx + 1].type # "user_message"
        THEN [outcome |-> "throw", itemsToRemove |-> SubSeq(all, 1, idx),
              userMessageItem |-> NoItem]
        ELSE [outcome |-> "respond", itemsToRemove |-> SubSeq(all, 1, idx),
              userMessageItem |-> all[idx + 1]]

\* threads.retry_after_item, up to the call of processEvents
ThreadsRetryAfterItem ==
    /\ pc = "idle"
    /\ \E req \in RouterRequests :
         /\ req.type = "threads.retry_after_item"
         /\ request' = req
         /\ thread' = req.thread_id
         /\ title' = loadThread(storedTitle, req.thread_id)
         /\ LET scan == retryScan(paginateThreadItemsReverse(store, req.thread_id, ""),
                                  req.item_id)
                deletes == [i \in 1..Len(scan.itemsToRemove) |->
                              StoreCall("deleteThreadItem", NoItem,
                                        scan.itemsToRemove[i].id)]
            IN  CASE scan.outcome = "throw" ->
                        /\ pc' = "threw"
                        /\ UNCHANGED <<store, writes, stream>>
                  [] scan.outcome = "none" ->
                        /\ pc' = "ended"
                        /\ UNCHANGED <<store, writes, stream>>
                  [] scan.outcome = "respond" ->
                        /\ store' = ApplyCalls(store, req.thread_id, deletes)
                        /\ writes' = writes \o Logged("router", deletes, Len(out))
                        /\ stream' = Respond(scan.userMessageItem)
                        /\ pc' = "itemDone"
    /\ UNCHANGED <<widgetVars, queueVars>>
    /\ UNCHANGED <<idCounter, pendingItems, event, emitThreadUpdate, consumed, out, base,
                   raised, response, cancelInput, invoked, storedTitle>>

\* InMemoryStore.loadItem: the first item with that id; <<>> stands for the
\* exception thrown when there is none
loadItem(st, threadId, itemId) ==
    LET idx == FindIndex(st[threadId], itemId)
    IN  IF idx = -1 THEN <<>> ELSE <<st[threadId][idx + 1]>>

\* variant: every item passes for a widget
hasWidget_Always(item) == TRUE

\* (item as WidgetItem).widget !== undefined: of the item types only the
\* widget item has a widget field
hasWidget(item) == item.type = "widget"

\* threads.custom_action, up to the yield of the error event or the call of
\* processEvents
ThreadsCustomAction ==
    /\ pc = "idle"
    /\ \E req \in RouterRequests :
         /\ req.type = "threads.custom_action"
         /\ request' = req
         /\ thread' = req.thread_id
         /\ title' = loadThread(storedTitle, req.thread_id)
         /\ LET loaded == IF req.item_id # ""
                          THEN loadItem(store, req.thread_id, req.item_id)
                          ELSE <<NoItem>>
            IN  IF loaded = <<>>
                THEN /\ pc' = "threw"
                     /\ UNCHANGED <<out, stream>>
                ELSE IF loaded[1] # NoItem /\ ~hasWidget(loaded[1])
                THEN /\ out' = Append(out, ErrorEvent("stream_error", "", FALSE))
                     /\ pc' = "rejected"
                     /\ UNCHANGED stream
                ELSE /\ stream' = Action(loaded[1])
                     /\ pc' = "itemDone"
                     /\ UNCHANGED out
    /\ UNCHANGED <<widgetVars, queueVars>>
    /\ UNCHANGED <<store, idCounter, pendingItems, event, emitThreadUpdate, consumed,
                   base, writes, raised, response, cancelInput, invoked, storedTitle>>

\* the consumer asks for the event after the error event: the return
CustomActionReturns ==
    /\ pc = "rejected"
    /\ pc' = "ended"
    /\ UNCHANGED <<widgetVars, queueVars>>
    /\ UNCHANGED <<store, idCounter, request, thread, pendingItems, event,
                   emitThreadUpdate, consumed, out, base, writes, raised, response,
                   cancelInput, stream, invoked, title, storedTitle>>

\* serialize: the UTF-8 bytes of JSON.stringify(obj), kept as the value they
\* encode under a tag
serialize(obj) == [json |-> obj]

\* processStreaming: for each event of processStreamingImpl, as it is yielded,
\* one chunk "data: " + serialize(event) + "\n\n"
processStreaming(events) ==
    [ i \in DOMAIN events |->
        [prefix |-> "data: ", b |-> serialize(events[i]), suffix |-> "\n\n"] ]

-----------------------------------------------------------------------------
(* processEvents *)

\* variant: the turn starts without the stream_options event
StreamOptions_Skipped ==
    /\ pc = "itemDone"
    /\ base' = Len(out)
    /\ pendingItems' = <<>>
    /\ pc' = "next"
    /\ UNCHANGED <<widgetVars, queueVars>>
    /\ UNCHANGED <<store, idCounter, request, thread, event, emitThreadUpdate,
                   consumed, out, writes, raised, response, cancelInput,
                   stream, invoked, title, storedTitle>>

\* the first step: yield stream_options and start with no pending items
StreamOptions ==
    /\ pc = "itemDone"
    /\ out' = Append(out, StreamOptionsEvent)
    /\ base' = Len(out)
    /\ pendingItems' = <<>>
    /\ pc' = "next"
    /\ UNCHANGED <<widgetVars, queueVars>>
    /\ UNCHANGED <<store, idCounter, request, thread, event, emitThreadUpdate,
                   consumed, writes, raised, response, cancelInput,
                   stream, invoked, title, storedTitle>>

\* variant: a replaced item stays pending
PendingAfter_ReplacedStays(pend, e) ==
    CASE e.type = "thread.item.added" -> PendingSet(pend, e.item)
      [] e.type \in {"thread.item.done", "thread.item.removed"} ->
            PendingDelete(pend, e.item_id)
      [] e.type = "thread.item.updated" ->
            IF PendingHas(pend, e.item_id)
               /\ PendingGet(pend, e.item_id).type = "assistant_message"
            THEN PendingSet(pend,
                    applyAssistantMessageUpdate(PendingGet(pend, e.item_id), e.update))
            ELSE pend
      [] OTHER -> pend

\* pendingItems after the event has been handled
PendingAfter(pend, e) ==
    CASE e.type = "thread.item.added" -> PendingSet(pend, e.item)
      [] e.type \in {"thread.item.done", "thread.item.removed",
                     "thread.item.replaced"} -> PendingDelete(pend, e.item_id)
      [] e.type = "thread.item.updated" ->
            IF PendingHas(pend, e.item_id)
               /\ PendingGet(pend, e.item_id).type = "assistant_message"
            THEN PendingSet(pend,
                    applyAssistantMessageUpdate(PendingGet(pend, e.item_id), e.update))
            ELSE pend
      [] OTHER -> pend

\* variant: an added item is persisted at once
SideEffect_AddedPersists(e) ==
    CASE e.type \in {"thread.item.done", "thread.item.added"} ->
            <<StoreCall("addThreadItem", e.item, e.item_id)>>
      [] e.type = "thread.item.removed" ->
            <<StoreCall("deleteThreadItem", NoItem, e.item_id)>>
      [] e.type = "thread.item.replaced" ->
            <<StoreCall("saveItem", e.item, e.item_id)>>
      [] OTHER -> <<>>

\* the store calls of the event's side effect
SideEffect(e) ==
    CASE e.type = "thread.item.done" -> <<StoreCall("addThreadItem", e.item, e.item_id)>>
      [] e.type = "thread.item.removed" ->
            <<StoreCall("deleteThreadItem", NoItem, e.item_id)>>
      [] e.type = "thread.item.replaced" ->
            <<StoreCall("saveItem", e.item, e.item_id)>>
      [] OTHER -> <<>>

\* variant: an added item does not ask for a snapshot
EmitsThreadUpdate_NotOnAdded(e) ==
    e.type \in {"thread.item.done", "thread.item.removed", "thread.item.replaced"}

\* emitThreadUpdate as the switch over the event's type leaves it
EmitsThreadUpdate(e) ==
    e.type \in {"thread.item.done", "thread.item.removed", "thread.item.replaced",
                "thread.item.added"}

\* variant: only one of the two hidden kinds is swallowed
shouldSwallowEvent_OnlyHiddenContext(e) ==
    e.type = "thread.item.done" /\ e.item.type = "hidden_context"

shouldSwallowEvent(e) ==
    e.type = "thread.item.done" /\ isHidden(e.item)

\* variant: an event that is not swallowed is yielded twice
YieldedFor_ForwardsTwice(st, threadId, pend, e) ==
    IF shouldSwallowEvent(e)
    THEN IF EmitsThreadUpdate(e) \/ threadChanged
         THEN <<ThreadUpdatedEvent(buildThreadResponseWithPending(st, threadId, pend))>>
         ELSE <<>>
    ELSE <<e, e>>

\* the events yielded for a handled event between two reads of the turn source,
\* given the store and pending items its handling left: the event itself
\* unless swallowed and, if it was swallowed, the thread snapshot that follows
\* without a suspension in between
YieldedFor(st, threadId, pend, e) ==
    IF shouldSwallowEvent(e)
    THEN IF EmitsThreadUpdate(e) \/ threadChanged
         THEN <<ThreadUpdatedEvent(buildThreadResponseWithPending(st, threadId, pend))>>
         ELSE <<>>
    ELSE <<e>>

\* variant: the event is yielded first and its side effect runs afterwards
SideEffectPosition_AfterYield(before, after) == after

\* the loop body runs the event's side effect before it yields the event: the
\* store calls are made with the consumer's events as they were before
SideEffectPosition(before, after) == before

\* stream() at the head of the loop: the turn source is called when the
\* consumer asks for the event after stream_options; recorded with the number
\* of events the consumer had received and the thread's items at that time
Invoke ==
    IF invoked = NoInvocation
    THEN [kind |-> stream.kind, input |-> stream.input, at |-> Len(out),
          items |-> store[thread]]
    ELSE invoked

\* one iteration of the loop, from the turn source's next event to the yield
\* of that event (or, for a swallowed event, to the yield of the snapshot)
ConsumeFrom(events) ==
    /\ pc = "next"
    /\ Len(consumed) < MaxEvents
    /\ \E e \in events :
         /\ event' = e
         /\ consumed' = Append(consumed, e)
         /\ pendingItems' = PendingAfter(pendingItems, e)
         /\ store' = ApplyCalls(store, thread, SideEffect(e))
         /\ emitThreadUpdate' = EmitsThreadUpdate(e)
         /\ out' = out \o YieldedFor(store', thread, pendingItems', e)
         /\ writes' = writes \o Logged("coordinator", SideEffect(e),
                                      SideEffectPosition(Len(out), Len(out')))
         /\ pc' = IF ~shouldSwallowEvent(e) /\ (EmitsThreadUpdate(e) \/ threadChanged)
                  THEN "yielded" ELSE "next"
    /\ invoked' = Invoke
    /\ UNCHANGED <<widgetVars, queueVars>>
    /\ UNCHANGED <<idCounter, request, thread, base, raised, response, cancelInput,
                   stream, title, storedTitle>>

Consume == ConsumeFrom(SourceEvents)

\* the same iteration for a turn source that streams one assistant message
ConsumeAssistantMessage == ConsumeFrom(AssistantEvents)

\* the consumer asks for the next event after an item event: the snapshot
EmitThreadUpdate ==
    /\ pc = "yielded"
    /\ out' = Append(out, ThreadUpdatedEvent(
                  buildThreadResponseWithPending(store, thread, pendingItems)))
    /\ pc' = "next"
    /\ UNCHANGED <<widgetVars, queueVars>>
    /\ UNCHANGED <<store, idCounter, request, thread, pendingItems, event,
                   emitThreadUpdate, consumed, base, writes, raised, response, cancelInput,
                   stream, invoked, title, storedTitle>>

\* variant: no snapshot once the turn source is exhausted
SourceCompletes_Silent ==
    /\ pc = "next"
    /\ pc' = "completed"
    /\ invoked' = Invoke
    /\ UNCHANGED <<widgetVars, queueVars>>
    /\ UNCHANGED <<store, idCounter, request, thread, pendingItems, event,
                   emitThreadUpdate, consumed, out, base, writes, raised, response,
                   cancelInput, stream, title, storedTitle>>

\* the turn source is exhausted: the final snapshot
SourceCompletes ==
    /\ pc = "next"
    /\ out' = Append(out, ThreadUpdatedEvent(
                  buildThreadResponseWithPending(store, thread, pendingItems)))
    /\ pc' = "completed"
    /\ invoked' = Invoke
    /\ UNCHANGED <<widgetVars, queueVars>>
    /\ UNCHANGED <<store, idCounter, request, thread, pendingItems, event,
                   emitThreadUpdate, consumed, base, writes, raised, response, cancelInput,
                   stream, title, storedTitle>>

\* variant: a generic exception reported as not retryable
ErrorEventFor_NoRetry(err) ==
    CASE err.class = "CustomStreamError" -> ErrorEvent("custom", err.message, err.allowRetry)
      [] err.class = "StreamError" -> ErrorEvent("stream_error", "", err.allowRetry)
      [] OTHER -> ErrorEvent("stream_error", DEFAULT_ERROR_MESSAGE, FALSE)

\* the error event of the catch block
ErrorEventFor(err) ==
    CASE err.class = "CustomStreamError" -> ErrorEvent("custom", err.message, err.allowRetry)
      [] err.class = "StreamError" -> ErrorEvent("stream_error", "", err.allowRetry)
      [] OTHER -> ErrorEvent("stream_error", DEFAULT_ERROR_MESSAGE, TRUE)

\* the turn source raises one of the given exceptions: the catch block yields
\* the error event
Throws(errors) ==
    /\ pc = "next"
    /\ \E err \in errors :
         /\ raised' = err
         /\ out' = Append(out, ErrorEventFor(err))
    /\ pc' = "caught"
    /\ invoked' = Invoke
    /\ UNCHANGED <<widgetVars, queueVars>>
    /\ UNCHANGED <<store, idCounter, request, thread, pendingItems, event,
                   emitThreadUpdate, consumed, base, writes, response, cancelInput,
                   stream, title, storedTitle>>

SourceThrows == Throws(SourceErrors)

\* the turn source raises when it is first read, with any exception
SourceThrowsAtOnce ==
    /\ consumed = <<>>
    /\ Throws(ConstructedErrors)

\* the catch block, after the error event: the last snapshot
CatchThreadUpdate ==
    /\ pc = "caught"
    /\ out' = Append(out, ThreadUpdatedEvent(
                  buildThreadResponseWithPending(store, thread, pendingItems)))
    /\ pc' = "failed"
    /\ UNCHANGED <<widgetVars, queueVars>>
    /\ UNCHANGED <<store, idCounter, request, thread, pendingItems, event,
                   emitThreadUpdate, consumed, base, writes, raised, response, cancelInput,
                   stream, invoked, title, storedTitle>>

\* the consumer stops iterating: return() on the generator ends
\* processStreaming, processStreamingImpl, processEvents and the turn source at
\* the yield each is suspended at.  None of them has a finally block and a
\* return raises nothing, so no statement of the server runs
ConsumerReturns ==
    /\ pc \in {"created", "itemDone", "next", "yielded", "caught"}
    /\ pc' = "returned"
    /\ UNCHANGED <<widgetVars, queueVars>>
    /\ UNCHANGED <<store, idCounter, request, thread, pendingItems, event,
                   emitThreadUpdate, consumed, out, base, writes, raised, response,
                   cancelInput, stream, invoked, title, storedTitle>>

\* the titles a turn source may give the thread
NewTitles == {"New Title"}

\* the turn source, between two of its events, changes the metadata of the
\* thread it was handed: an assignment to a field of the object that both
\* thread and lastThread name
SourceMutatesThread ==
    /\ pc = "next"
    /\ \E t \in NewTitles :
         /\ t # title
         /\ title' = t
    /\ invoked' = Invoke
    /\ UNCHANGED <<widgetVars, queueVars>>
    /\ UNCHANGED <<store, idCounter, pc, request, thread, pendingItems, event,
                   emitThreadUpdate, consumed, out, base, writes, raised, response,
                   cancelInput, stream, storedTitle>>

-----------------------------------------------------------------------------
(* handleStreamCancelled, the default cancellation hook *)

\* variant: the text is tested without trimming it
isEmpty_NoTrim(item) ==
    \/ Len(item.content) = 0
    \/ \A i \in DOMAIN item.content : item.content[i].text = <<>>

\* isEmpty: no content part, or every part's text trims to the empty string
isEmpty(item) ==
    \/ Len(item.content) = 0
    \/ \A i \in DOMAIN item.content : Trim(item.content[i].text) = <<>>

\* the store calls of the hook: the non-empty pending assistant messages in
\* order, then the new hidden context item with the id just generated
handleStreamCancelled(threadId, pending, n) ==
    LET pendingAssistantMessages ==
            Filter(pending, LAMBDA item : item.type = "assistant_message")
        kept == Filter(pendingAssistantMessages, LAMBDA item : ~isEmpty(item))
        hiddenContextItem ==
            SDKHiddenContext(defaultGenerateId("sdk_hidden_context", n), CANCEL_MESSAGE)
    IN  [i \in 1..Len(kept) |-> StoreCall("addThreadItem", kept[i], kept[i].id)]
        \o <<StoreCall("addThreadItem", hiddenContextItem, hiddenContextItem.id)>>

\* the host calls the hook with the thread and the pending items it holds
HandleStreamCancelled ==
    /\ pc = "cancelling"
    /\ idCounter' = idCounter + 1
    /\ LET calls == handleStreamCancelled(thread, cancelInput, idCounter')
       IN  /\ store' = ApplyCalls(store, thread, calls)
           /\ writes' = writes \o Logged("hook", calls, Len(out))
    /\ pc' = "cancelled"
    /\ UNCHANGED <<widgetVars, queueVars>>
    /\ UNCHANGED <<request, thread, pendingItems, event, emitThreadUpdate, consumed,
                   out, base, raised, response, cancelInput,
                   stream, invoked, title, storedTitle>>

\* the pending items a host may hand to the hook
CancelTexts == { <<>>, <<" ">>, <<"a">>, <<" ", "a">>, <<"\n", "\t">> }

CancelItems ==
    { AssistantMessage("a1", <<>>) }
    \cup { AssistantMessage("a1", <<OutputText(t)>>) : t \in CancelTexts }
    \cup { AssistantMessage("a2", <<OutputText(<<" ">>), OutputText(t)>>) :
              t \in {<<"\t">>, <<"a", " ">>} }
    \cup { W1, H1, UserMessage("u1") }

RECURSIVE SeqsUpTo(_, _)
SeqsUpTo(S, n) ==
    IF n = 0 THEN { <<>> }
    ELSE LET shorter == SeqsUpTo(S, n - 1)
         IN  shorter \cup { Append(q, x) : q \in shorter, x \in S }

\* the hook is called on a thread of the store, the server having generated
\* some ids before
InitCancel ==
    /\ \E items \in InitialItems : store = [t \in {ExistingThread} |-> items]
    /\ idCounter \in {0, 15}
    /\ pc = "cancelling"
    /\ request = NoRequest
    /\ thread = ExistingThread
    /\ pendingItems = <<>>
    /\ event = NoEvent
    /\ emitThreadUpdate = FALSE
    /\ consumed = <<>>
    /\ out = <<>>
    /\ base = 0
    /\ raised = NoError
    /\ writes = <<>>
    /\ response = <<>>
    /\ cancelInput \in SeqsUpTo(CancelItems, MaxCancelItems)
    /\ stream = NoStream
    /\ invoked = NoInvocation
    /\ title = "Old Title"
    /\ storedTitle = [t \in {ExistingThread} |-> "Old Title"]
    /\ HelpersIdle

NextCancel == HandleStreamCancelled

SpecCancel == InitCancel /\ [][NextCancel]_vars

-----------------------------------------------------------------------------

Next ==
    \/ ItemsList
    \/ ThreadsGetById
    \/ ThreadsCreate
    \/ ThreadsCreateRespond
    \/ ThreadsAddUserMessage
    \/ StreamOptions
    \/ Consume
    \/ EmitThreadUpdate
    \/ SourceCompletes
    \/ SourceThrows
    \/ CatchThreadUpdate

Spec == Init /\ [][Next]_vars

\* the same requests, with a consumer that may stop iterating at any event
NextConsumerReturns == Next \/ ConsumerReturns

SpecConsumerReturns == Init /\ [][NextConsumerReturns]_vars

\* the other streaming requests, on a thread that holds a conversation
InitRouter ==
    /\ \E items \in RouterItems : store = [t \in {ExistingThread} |-> items]
    /\ idCounter = 0
    /\ pc = "idle"
    /\ request = NoRequest
    /\ thread = ""
    /\ pendingItems = <<>>
    /\ event = NoEvent
    /\ emitThreadUpdate = FALSE
    /\ consumed = <<>>
    /\ out = <<>>
    /\ base = 0
    /\ raised = NoError
    /\ writes = <<>>
    /\ response = <<>>
    /\ cancelInput = <<>>
    /\ stream = NoStream
    /\ invoked = NoInvocation
    /\ title = ""
    /\ storedTitle = [t \in {ExistingThread} |-> "Old Title"]
    /\ HelpersIdle

NextRouter ==
    \/ ThreadsAddClientToolOutput
    \/ ThreadsRetryAfterItem
    \/ ThreadsCustomAction
    \/ CustomActionReturns
    \/ StreamOptions
    \/ Consume
    \/ EmitThreadUpdate
    \/ SourceCompletes
    \/ SourceThrows
    \/ CatchThreadUpdate

SpecRouter == InitRouter /\ [][NextRouter]_vars

\* the requests that start a turn, with a turn source that raises at once
NextSourceThrows ==
    \/ ThreadsCreate
    \/ ThreadsCreateRespond
    \/ ThreadsAddUserMessage
    \/ StreamOptions
    \/ SourceThrowsAtOnce
    \/ CatchThreadUpdate

SpecSourceThrows == Init /\ [][NextSourceThrows]_vars

\* the same requests, with a turn source that may retitle the thread
NextMutatesThread == Next \/ SourceMutatesThread

SpecMutatesThread == Init /\ [][NextMutatesThread]_vars

\* a turn whose source streams one assistant message, update by update
NextUpdates ==
    \/ ThreadsAddUserMessage
    \/ StreamOptions
    \/ ConsumeAssistantMessage
    \/ EmitThreadUpdate
    \/ SourceCompletes

SpecUpdates == Init /\ [][NextUpdates]_vars

-----------------------------------------------------------------------------
(* The helpers on their own: no request is being processed *)

ServerIdle ==
    /\ store = [t \in {ExistingThread} |-> <<>>]
    /\ request = NoRequest
    /\ thread = ""
    /\ pendingItems = <<>>
    /\ event = NoEvent
    /\ emitThreadUpdate = FALSE
    /\ consumed = <<>>
    /\ out = <<>>
    /\ base = 0
    /\ raised = NoError
    /\ writes = <<>>
    /\ response = <<>>
    /\ cancelInput = <<>>
    /\ stream = NoStream
    /\ invoked = NoInvocation
    /\ title = ""
    /\ storedTitle = [t \in {ExistingThread} |-> "Old Title"]

\* the snapshots handed to diffWidget: a card of up to two text nodes, with
\* or without a Spacing object as its padding, and roots of another type, id
\* or key
Strings == { <<>>, <<"a">>, <<"a", "b">>, <<"b">> }

Flags == {"undefined", "true", "false"}

DiffTexts == { Text(id, v, s) : id \in {"", "t"}, v \in Strings, s \in Flags }

OtherText == Text("u", <<"x">>, "true")

TwinText == Text("t", <<"x">>, "true")

DiffChildren ==
    { <<>> }
    \cup { <<c>> : c \in DiffTexts }
    \cup { <<c, d>> : c \in DiffTexts, d \in {OtherText, TwinText} }

Paddings == { NoPadding, Spacing(1, 4), Spacing(2, 4), Spacing(3, 8) }

WidgetRoots ==
    { Card(p, ch) : p \in Paddings, ch \in DiffChildren }
    \cup { [Card(NoPadding, <<>>) EXCEPT !.type = "ListView"],
           [Card(NoPadding, <<>>) EXCEPT !.id = "r"],
           [Card(NoPadding, <<>>) EXCEPT !.key = "k"] }

InitDiff ==
    /\ ServerIdle
    /\ idCounter = 0
    /\ pc = "diffWidget"
    /\ diffBefore \in WidgetRoots
    /\ diffAfter \in WidgetRoots
    /\ diffResult = NotCalled
    /\ widgetArg = NoWidgetArg
    /\ asyncGen = <<>>
    /\ lastState = NoWidget
    /\ widgetItemId = ""
    /\ widgetOut = <<>>
    /\ queueItems = <<>>
    /\ resolvers = <<>>
    /\ queueDone = FALSE
    /\ delivered = <<>>
    /\ enqueued = <<>>

NextDiff == DiffWidget

SpecDiff == InitDiff /\ [][NextDiff]_vars

\* the snapshots a widget generator yields: a card of a streamed text node and
\* a second text node, with or without an id, or an empty card
GeneratorSnapshots ==
    { Card(NoPadding, <<Text("t", v, s), Text(id, w, "true")>>) :
        v \in { <<"a">>, <<"a", "b">> }, s \in {"true", "false"},
        id \in {"u", ""}, w \in { <<>>, <<"x">> } }
    \cup { Card(NoPadding, <<>>) }

WidgetArgs ==
    { SingleWidget(w) : w \in GeneratorSnapshots }
    \cup { WidgetGenerator(s) : s \in SeqsUpTo(GeneratorSnapshots, MaxSnapshots) }

InitStreamWidget ==
    /\ ServerIdle
    /\ idCounter \in {0, 15}
    /\ pc = "streamWidget"
    /\ diffBefore = NoWidget
    /\ diffAfter = NoWidget
    /\ diffResult = NotCalled
    /\ widgetArg \in WidgetArgs
    /\ asyncGen = widgetArg.states
    /\ lastState = NoWidget
    /\ widgetItemId = ""
    /\ widgetOut = <<>>
    /\ queueItems = <<>>
    /\ resolvers = <<>>
    /\ queueDone = FALSE
    /\ delivered = <<>>
    /\ enqueued = <<>>

NextStreamWidget ==
    \/ StreamWidgetStart
    \/ StreamWidgetNext
    \/ StreamWidgetDone

SpecStreamWidget == InitStreamWidget /\ [][NextStreamWidget]_vars

\* a queue, its producer and its one consumer
InitQueue ==
    /\ ServerIdle
    /\ idCounter = 0
    /\ pc = "queue"
    /\ HelpersIdle

NextQueue ==
    \/ Enqueue
    \/ Complete
    \/ IteratorNext

SpecQueue == InitQueue /\ [][NextQueue]_vars

\* a queue, its producer and several consumers
InitSharedQueue ==
    /\ ServerIdle
    /\ idCounter = 0
    /\ pc = "consumers"
    /\ HelpersIdle

NextSharedQueue ==
    \/ SharedEnqueue
    \/ SharedComplete
    \/ SharedNext

SpecSharedQueue == InitSharedQueue /\ [][NextSharedQueue]_vars

\* threads that hold about a page of items: a user message, then what one turn
\* stored (n assistant messages, with or without a client tool call before
\* them that is still pending, and with or without one after them)
Filler(i) == AssistantMessage("f_" \o ToHex(i), <<>>)

Fillers(n) == [ i \in 1..n |-> Filler(i) ]

LongThreads ==
    { <<U0, T1>> \o Fillers(2),
      <<U0>> \o Fillers(DEFAULT_PAGE_SIZE - 3),
      <<U0>> \o Fillers(DEFAULT_PAGE_SIZE - 1),
      <<U0, T1>> \o Fillers(DEFAULT_PAGE_SIZE - 2),
      <<U0, T1>> \o Fillers(DEFAULT_PAGE_SIZE - 1),
      <<U0, T1>> \o Fillers(DEFAULT_PAGE_SIZE - 3) \o <<T0>>,
      <<U0, T1>> \o Fillers(DEFAULT_PAGE_SIZE - 2) \o <<T0>> }

\* the events of a turn source on such a thread
LongThreadEvents == { ItemAdded(A0), ItemDone(A1), ItemDone(H1), ItemDone(W1) }

InitLongThread ==
    /\ \E items \in LongThreads : store = [t \in {ExistingThread} |-> items]
    /\ idCounter = 0
    /\ pc = "idle"
    /\ request = NoRequest
    /\ thread = ""
    /\ pendingItems = <<>>
    /\ event = NoEvent
    /\ emitThreadUpdate = FALSE
    /\ consumed = <<>>
    /\ out = <<>>
    /\ base = 0
    /\ raised = NoError
    /\ writes = <<>>
    /\ response = <<>>
    /\ cancelInput = <<>>
    /\ stream = NoStream
    /\ invoked = NoInvocation
    /\ title = ""
    /\ storedTitle = [t \in {ExistingThread} |-> "Old Title"]
    /\ HelpersIdle

ConsumeOnLongThread == ConsumeFrom(LongThreadEvents)

NextLongThread ==
    \/ ThreadsCreate
    \/ ThreadsCreateRespond
    \/ ThreadsAddUserMessage
    \/ ThreadsAddClientToolOutput
    \/ StreamOptions
    \/ ConsumeOnLongThread
    \/ EmitThreadUpdate
    \/ SourceCompletes

SpecLongThread == InitLongThread /\ [][NextLongThread]_vars

\* a server process that serves one request after another over a store that
\* outlives it: the module-level idCounter lives as long as the process
MaxStoredItems == 4

StoredItems(st) == UNION { { <<t, i>> : i \in DOMAIN st[t] } : t \in DOMAIN st }

\* the ids of the threads and items the store holds
StoredIds(st) == DOMAIN st \cup { st[x[1]][x[2]].id : x \in StoredItems(st) }

\* the response stream has ended; the process waits for the next request
RequestEnds ==
    /\ pc = "completed"
    /\ Cardinality(StoredItems(store)) < MaxStoredItems
    /\ pc' = "idle"
    /\ request' = NoRequest
    /\ thread' = ""
    /\ pendingItems' = <<>>
    /\ event' = NoEvent
    /\ emitThreadUpdate' = FALSE
    /\ consumed' = <<>>
    /\ out' = <<>>
    /\ base' = 0
    /\ writes' = <<>>
    /\ stream' = NoStream
    /\ invoked' = NoInvocation
    /\ title' = ""
    /\ UNCHANGED <<widgetVars, queueVars>>
    /\ UNCHANGED <<store, storedTitle, idCounter, raised, response, cancelInput>>

\* the process is started again: the module is loaded anew (let idCounter = 0)
\* and the store still holds what was saved
ProcessRestarts ==
    /\ pc = "completed"
    /\ Cardinality(StoredItems(store)) < MaxStoredItems
    /\ idCounter' = 0
    /\ pc' = "idle"
    /\ request' = NoRequest
    /\ thread' = ""
    /\ pendingItems' = <<>>
    /\ event' = NoEvent
    /\ emitThreadUpdate' = FALSE
    /\ consumed' = <<>>
    /\ out' = <<>>
    /\ base' = 0
    /\ writes' = <<>>
    /\ stream' = NoStream
    /\ invoked' = NoInvocation
    /\ title' = ""
    /\ UNCHANGED <<widgetVars, queueVars>>
    /\ UNCHANGED <<store, storedTitle, raised, response, cancelInput>>

InitIds ==
    /\ ServerIdle
    /\ idCounter = 0
    /\ pc = "idle"
    /\ HelpersIdle

NextIds ==
    \/ ThreadsCreate
    \/ ThreadsCreateRespond
    \/ ThreadsAddUserMessage
    \/ StreamOptions
    \/ SourceCompletes
    \/ RequestEnds
    \/ ProcessRestarts

SpecIds == InitIds /\ [][NextIds]_vars

-----------------------------------------------------------------------------
(* Properties *)

Last(q) == q[Len(q)]

Count(q, P(_)) == Cardinality({ i \in DOMAIN q : P(q[i]) })

\* positions of processEvents once it has been called
CoordinatorPcs == {"next", "yielded", "caught", "failed", "completed"}

\* the events processEvents has emitted
CoordOut == SubSeq(out, base + 1, Len(out))

IsHiddenKind(item) == item.type \in {"hidden_context", "sdk_hidden_context"}

NoHiddenIn(items) == \A i \in DOMAIN items : ~IsHiddenKind(items[i])

\* the snapshot a client should see now: the durable items, then the pending
\* items that are not durable, hidden items left out
SnapshotNow ==
    LET durable == SubSeq(store[thread], 1, Min(Len(store[thread]), DEFAULT_PAGE_SIZE))
        extra == SelectSeq(pendingItems,
                    LAMBDA p : \A i \in DOMAIN durable : durable[i].id # p.id)
    IN  SelectSeq(durable \o extra, LAMBDA item : ~IsHiddenKind(item))

\* C1: when the turn source raises after k >= 0 events, processEvents emits
\* exactly one error event, then exactly one thread.updated snapshot, and
\* then ends; for a generic exception raised before any event the whole output
\* is stream_options, error(stream_error, allowRetry = true), thread.updated.
C1_ErrorThenSnapshotThenEnd ==
    /\ pc = "caught" =>
         /\ Last(out).type = "error"
         /\ Count(CoordOut, LAMBDA e : e.type = "error") = 1
    /\ pc = "failed" =>
         /\ Len(CoordOut) >= 3
         /\ out[Len(out) - 1].type = "error"
         /\ Last(out) = [Event("thread.updated") EXCEPT !.items = SnapshotNow]
         /\ Count(CoordOut, LAMBDA e : e.type = "error") = 1
         /\ ~ENABLED Next
         /\ (consumed = <<>> /\ raised.class = "Error") =>
               /\ Len(CoordOut) = 3
               /\ CoordOut[1].type = "stream_options"
               /\ CoordOut[2].type = "error"
               /\ CoordOut[2].code = "stream_error"
               /\ CoordOut[2].allowRetry = TRUE
               /\ CoordOut[3].type = "thread.updated"

C1_Witness ==
    /\ pc = "failed"
    /\ consumed = <<>>
    /\ raised.class = "Error"
    /\ Len(CoordOut) = 3

\* C2: the first event processEvents emits is stream_options, and it is
\* emitted before any event of the turn source is consumed or forwarded.
C2_StreamOptionsFirst ==
    /\ pc \in CoordinatorPcs =>
         /\ Len(CoordOut) >= 1
         /\ CoordOut[1].type = "stream_options"
    /\ pc \notin CoordinatorPcs => consumed = <<>>

C2_Witness ==
    /\ pc = "next"
    /\ Len(consumed) >= 1
    /\ Last(out) = Last(consumed)

\* an event after which the loop emits a snapshot of its own
IsItemChange(e) ==
    e.type \in {"thread.item.added", "thread.item.done", "thread.item.removed",
                "thread.item.replaced"}

\* C3 as stated: on normal completion the final event is a thread.updated that
\* is not immediately preceded by another thread.updated.
C3_SingleTrailingSnapshot ==
    pc = "completed" =>
        /\ Last(out).type = "thread.updated"
        /\ out[Len(out) - 1].type # "thread.updated"

\* C3 amended: on normal completion the final event is the thread.updated
\* snapshot emitted after the turn source is exhausted; it is immediately
\* preceded by another thread.updated exactly when the last turn-source event
\* was an item added, done, removed or replaced event, whose own snapshot it
\* repeats; otherwise it follows the last forwarded event or stream_options.
C3_FinalSnapshot ==
    pc = "completed" =>
        /\ Last(out) = [Event("thread.updated") EXCEPT !.items = SnapshotNow]
        /\ IF consumed # <<>> /\ IsItemChange(Last(consumed))
           THEN out[Len(out) - 1] = Last(out)
           ELSE /\ out[Len(out) - 1].type # "thread.updated"
                /\ out[Len(out) - 1] =
                     (IF consumed = <<>> THEN StreamOptionsEvent ELSE Last(consumed))

C3_Witness ==
    /\ pc = "completed"
    /\ consumed # <<>>
    /\ Last(consumed).type = "thread.item.done"
    /\ out[Len(out) - 1].type = "thread.updated"

\* the store call an event stands for
ExpectedCall(e) ==
    CASE e.type = "thread.item.done" ->
            <<[op |-> "addThreadItem", item |-> e.item, id |-> e.item.id]>>
      [] e.type = "thread.item.replaced" ->
            <<[op |-> "saveItem", item |-> e.item, id |-> e.item.id]>>
      [] e.type = "thread.item.removed" ->
            <<[op |-> "deleteThreadItem", item |-> NoItem, id |-> e.item_id]>>
      [] OTHER -> <<>>

RECURSIVE ExpectedCalls(_)
ExpectedCalls(evs) ==
    IF evs = <<>> THEN <<>> ELSE ExpectedCall(Head(evs)) \o ExpectedCalls(Tail(evs))

WritesBy(who) ==
    LET mine == SelectSeq(writes, LAMBDA w : w.by = who)
    IN  [i \in 1..Len(mine) |->
            [op |-> mine[i].op, item |-> mine[i].item, id |-> mine[i].id]]

\* C4: during a turn the Coordinator's store writes are exactly one append per
\* consumed done event, one update in place per replaced event and one delete
\* per removed event, in order; added and updated events cause no write.
C4_WritesExactlyOnDoneReplacedRemoved ==
    WritesBy("coordinator") = ExpectedCalls(consumed)

C4_Witness ==
    /\ Len(consumed) = 3
    /\ consumed[1].type = "thread.item.added"
    /\ consumed[2].type = "thread.item.updated"
    /\ consumed[3].type = "thread.item.done"
    /\ Len(WritesBy("coordinator")) = 1

\* C5: whenever the consumer has received a done, replaced or removed event,
\* the store call for it was made before the event was yielded: at every such position there are at least as many earlier calls
\* for that event as events like it received so far.
C5_PersistBeforeEmit ==
    \A i \in DOMAIN out :
        out[i].type \in {"thread.item.done", "thread.item.replaced",
                         "thread.item.removed"} =>
            Cardinality({ j \in DOMAIN writes :
                            /\ <<[op |-> writes[j].op, item |-> writes[j].item,
                                  id |-> writes[j].id]>> = ExpectedCall(out[i])
                            /\ writes[j].at < i })
              >= Cardinality({ k \in 1..i : out[k] = out[i] })

C5_Witness ==
    /\ pc = "yielded"
    /\ Last(out).type = "thread.item.replaced"
    /\ Last(writes).op = "saveItem"
    /\ Last(writes).at = Len(out) - 1

SourceIds == {"a1", "h1", "h2", "w1"}

IsTerminalFor(e, id) ==
    /\ e.type \in {"thread.item.done", "thread.item.removed", "thread.item.replaced"}
    /\ e.item_id = id

\* an id is pending iff an added event for it was consumed and no done, removed
\* or replaced event for it since
PendingIffAddedAndOpen ==
    \A id \in SourceIds :
        (\E k \in DOMAIN pendingItems : pendingItems[k].id = id)
        <=> \E i \in DOMAIN consumed :
               /\ consumed[i].type = "thread.item.added"
               /\ consumed[i].item.id = id
               /\ \A j \in (i + 1)..Len(consumed) : ~IsTerminalFor(consumed[j], id)

\* the step that consumes a widget delta leaves the pending items as they are
WidgetDeltaKeepsPending ==
    (/\ consumed' # consumed
     /\ event'.type = "thread.item.updated"
     /\ event'.update.type \in {"widget.streaming_text.value_delta",
                                "widget.root.updated"})
    => pendingItems' = pendingItems

\* C6: at every point of a turn an item id is in the pending set iff an added
\* event for it was consumed and no done, removed or replaced event for it has
\* been consumed since; a widget-delta updated event never changes the
\* pending set.
C6_PendingSet == [](PendingIffAddedAndOpen) /\ [][WidgetDeltaKeepsPending]_vars

C6_Witness ==
    /\ Len(consumed) = 3
    /\ consumed[1] = ItemAdded(W1)
    /\ consumed[2] = ItemUpdated("w1", WidgetTextDelta)
    /\ consumed[3].type = "thread.item.replaced"
    /\ pendingItems = <<W1>>

\* C7: a thread.item.done event whose item is of a hidden-context kind is
\* appended to the store (one append per such event) and is never forwarded.
NoHiddenDoneForwarded ==
    \A i \in DOMAIN out :
        out[i].type = "thread.item.done" => ~IsHiddenKind(out[i].item)

\* the step that consumes a hidden item's done event appends the item to the
\* thread and hands the consumer nothing but a snapshot
HiddenDoneAppended ==
    (/\ consumed' # consumed
     /\ event'.type = "thread.item.done"
     /\ IsHiddenKind(event'.item))
    => /\ store' = [store EXCEPT ![thread] = Append(@, event'.item)]
       /\ \A i \in (Len(out) + 1)..Len(out') : out'[i].type = "thread.updated"

C7_HiddenDonePersistedNotForwarded ==
    [](NoHiddenDoneForwarded) /\ [][HiddenDoneAppended]_vars

C7_Witness ==
    /\ pc = "next"
    /\ consumed = <<ItemDone(H2), ItemDone(H1)>>
    /\ Last(store[thread]) = H1
    /\ Len(CoordOut) = 3

\* C8: no hidden-context item appears in an items.list result, in a
\* threads.get_by_id result, or in the item list of a thread.created or
\* thread.updated snapshot, even when the store holds such items.
C8_NoHiddenInListingsAndSnapshots ==
    /\ NoHiddenIn(response)
    /\ \A i \in DOMAIN out :
          out[i].type \in {"thread.created", "thread.updated"} =>
              NoHiddenIn(out[i].items)

C8_Witness ==
    /\ pc = "next"
    /\ Last(out).type = "thread.updated"
    /\ \E i \in DOMAIN store[thread] : IsHiddenKind(store[thread][i])
    /\ \E k \in DOMAIN pendingItems : IsHiddenKind(pendingItems[k])

C8_WitnessListing ==
    /\ pc = "done"
    /\ request.type = "items.list"
    /\ response # <<>>
    /\ ~NoHiddenIn(loadThreadItems(store, request.thread_id, request.after,
                                   request.limit, request.order).data)

\* C9: no event the Coordinator emits to the consumer, of any kind, carries an
\* item of a hidden-context kind.
C9_NoHiddenItemEmitted ==
    \A i \in DOMAIN out :
        /\ ~IsHiddenKind(out[i].item)
        /\ NoHiddenIn(out[i].items)

NonBlank(text) == \E k \in DOMAIN text : text[k] \notin {" ", "\t", "\n"}

HasNonBlankText(item) ==
    /\ item.type = "assistant_message"
    /\ \E i \in DOMAIN item.content : NonBlank(item.content[i].text)

\* C10: the default cancellation hook appends every pending assistant message
\* that has non-blank text, unchanged and in order, appends no other pending
\* item, and then appends exactly one sdk_hidden_context item whose content is
\* the cancellation notice.
C10_CancelPersistsNonBlankAndNotice ==
    pc = "cancelled" =>
        LET kept == SelectSeq(cancelInput, HasNonBlankText)
            n == Len(kept) + 1
            items == store[thread]
            tail == SubSeq(items, Len(items) - n + 1, Len(items))
            calls == WritesBy("hook")
        IN  /\ Len(items) >= n
            /\ Len(calls) = n
            /\ \A i \in 1..n : calls[i].op = "addThreadItem" /\ calls[i].item = tail[i]
            /\ SubSeq(tail, 1, n - 1) = kept
            /\ tail[n].type = "sdk_hidden_context"
            /\ tail[n].hidden =
                 "The user cancelled the stream. Stop responding to the prior request."
            /\ Count(tail, LAMBDA it : it.type = "sdk_hidden_context") = 1

C10_Witness ==
    /\ pc = "cancelled"
    /\ Len(cancelInput) = 2
    /\ HasNonBlankText(cancelInput[1])
    /\ cancelInput[2] = AssistantMessage("a1", <<OutputText(<<"\n", "\t">>)>>)
    /\ Len(WritesBy("hook")) = 2

C10_WitnessBlankOnly ==
    /\ pc = "cancelled"
    /\ cancelInput = <<AssistantMessage("a1", <<OutputText(<<" ">>)>>)>>
    /\ Len(WritesBy("hook")) = 1

-----------------------------------------------------------------------------
(* Cancellation by the consumer, snapshots, metadata *)

\* C11: when the consumer stops iterating before the turn has finished, the
\* cancellation hook has run exactly once with the pending items of that
\* moment: the pending assistant messages with non-blank text and the
\* cancellation marker are in the thread's stored items.
C11_HookRunsWhenConsumerStops ==
    (pc = "returned" /\ \E i \in DOMAIN out : out[i].type = "stream_options") =>
        /\ Count(WritesBy("hook"),
                 LAMBDA c : c.item.type = "sdk_hidden_context") = 1
        /\ store[thread] # <<>>
        /\ Last(store[thread]).type = "sdk_hidden_context"
        /\ Last(store[thread]).hidden = CANCEL_MESSAGE
        /\ \A k \in DOMAIN pendingItems :
              HasNonBlankText(pendingItems[k]) =>
                  \E i \in DOMAIN store[thread] : store[thread][i] = pendingItems[k]

\* the thread's durable items as loadFullThread loads them
DurableLoaded(st) == SubSeq(st[thread], 1, Min(Len(st[thread]), DEFAULT_PAGE_SIZE))

IdsOf(items) == { items[i].id : i \in DOMAIN items }

Occurrences(items, id) == Cardinality({ i \in DOMAIN items : items[i].id = id })

\* the snapshots the step has handed to the consumer
NewSnapshots == { i \in (Len(out) + 1)..Len(out') : out'[i].type = "thread.updated" }

\* C12 as stated: every snapshot lists the non-hidden durable items as loaded,
\* then exactly the pending entries whose ids are not among the loaded durable
\* items, and no id twice.
C12_DurableThenEveryOtherPending ==
    [][\A i \in NewSnapshots :
          LET durable == DurableLoaded(store')
          IN  /\ out'[i].items =
                    SelectSeq(durable, LAMBDA it : ~IsHiddenKind(it))
                    \o SelectSeq(pendingItems', LAMBDA it : it.id \notin IdsOf(durable))
              /\ \A id \in IdsOf(out'[i].items) : Occurrences(out'[i].items, id) = 1
      ]_vars

\* C12 amended: every snapshot lists the non-hidden items among the durable
\* items as loaded, then the non-hidden pending entries whose ids are not among
\* the loaded durable items (hidden ones included); a pending entry never
\* repeats an id, and an id is listed as often as the loaded durable items
\* hold it.
C12_SnapshotIsDurableThenPending ==
    [][\A i \in NewSnapshots :
          LET durable == DurableLoaded(store')
              listed == out'[i].items
          IN  /\ listed =
                    SelectSeq(durable, LAMBDA it : ~IsHiddenKind(it))
                    \o SelectSeq(pendingItems',
                          LAMBDA it : it.id \notin IdsOf(durable) /\ ~IsHiddenKind(it))
              /\ \A id \in IdsOf(listed) :
                    Occurrences(listed, id) =
                        IF id \in IdsOf(durable) THEN Occurrences(durable, id) ELSE 1
      ]_vars

C12_Witness ==
    /\ pc = "next"
    /\ consumed = <<ItemDone(A1), ItemAdded(A0), ItemAdded(H1)>>
    /\ pendingItems = <<A0, H1>>
    /\ Last(out).type = "thread.updated"
    /\ Occurrences(Last(out).items, "a1") = 1
    /\ Occurrences(Last(out).items, "h1") = 0
    /\ Last(Last(out).items) = A1

\* C13: when the turn source has changed the thread's metadata during a turn,
\* the thread has been saved again by the time the turn's output ends, on
\* completion and on failure alike, and the output ends with a snapshot.
C13_MutatedThreadSaved ==
    (pc \in {"completed", "failed"} /\ title \in NewTitles) =>
        /\ storedTitle[thread] = title
        /\ Last(out).type = "thread.updated"

\* an assistant-message update that the Coordinator has applied to a pending
\* entry: the entry is an assistant message and the update names a content part
IsAppliedUpdate(e, pend) ==
    /\ e.type = "thread.item.updated"
    /\ e.update.type \in {"assistant_message.content_part.added",
                          "assistant_message.content_part.text_delta",
                          "assistant_message.content_part.annotation_added",
                          "assistant_message.content_part.done"}
    /\ \E k \in DOMAIN pend : pend[k].id = e.item_id /\ pend[k].type = "assistant_message"

\* C14 as stated: when the Coordinator is about to read the turn source again,
\* the event it handled last, if it was an item added, done, removed or
\* replaced event or an update applied to a pending assistant message, has been
\* followed by a thread.updated snapshot.
C14_SnapshotAfterEveryMutation ==
    (/\ pc = "next"
     /\ consumed # <<>>
     /\ \/ IsItemChange(Last(consumed))
        \/ IsAppliedUpdate(Last(consumed), pendingItems))
    => Last(out).type = "thread.updated"

\* C14 amended: an item added, done, removed or replaced event is followed by
\* a snapshot of the state its handling left, emitted right after the event and
\* before the turn source is read again; an updated event, applied to a pending
\* entry or not, is forwarded with no snapshot after it, and neither is any
\* other event.
C14_SnapshotAfterItemChangeOnly ==
    /\ (pc = "next" /\ consumed # <<>>) =>
          IF IsItemChange(Last(consumed))
          THEN /\ Last(out) = [Event("thread.updated") EXCEPT !.items = SnapshotNow]
               /\ \/ out[Len(out) - 1] = Last(consumed)
                  \/ /\ Last(consumed).type = "thread.item.done"
                     /\ IsHiddenKind(Last(consumed).item)
          ELSE Last(out) = Last(consumed)
    /\ pc = "yielded" =>
          /\ IsItemChange(Last(consumed))
          /\ Last(out) = Last(consumed)
          /\ ~ENABLED Consume
          /\ ENABLED EmitThreadUpdate

C14_Witness ==
    /\ pc = "next"
    /\ consumed = <<ItemAdded(A0), ItemUpdated("a1", TextDelta(0, <<"a">>))>>
    /\ pendingItems = <<A1>>
    /\ Last(out) = Last(consumed)
    /\ out[Len(out) - 1].type = "thread.updated"
    /\ out[Len(out) - 1].items # SnapshotNow

\* the error event of a failed turn
ErrorEmitted == IF pc = "caught" THEN Last(out) ELSE out[Len(out) - 1]

\* C15: the error event of a failed turn has one of three shapes: for a
\* StreamError, code stream_error, no message and the error's allowRetry (true
\* when not given); for a CustomStreamError, code custom, the error's message
\* and the error's allowRetry (false when not given); for any other exception,
\* code stream_error, the default message and allowRetry true, whatever the
\* exception's own text.
C15_ErrorEventShapes ==
    pc \in {"caught", "failed"} =>
        ErrorEmitted =
            CASE raised.class = "StreamError" ->
                    [Event("error") EXCEPT
                        !.code = "stream_error",
                        !.message = "",
                        !.allowRetry = IF raised.options = <<>> THEN TRUE
                                       ELSE raised.options[1]]
              [] raised.class = "CustomStreamError" ->
                    [Event("error") EXCEPT
                        !.code = "custom",
                        !.message = raised.message,
                        !.allowRetry = IF raised.options = <<>> THEN FALSE
                                       ELSE raised.options[1]]
              [] OTHER ->
                    [Event("error") EXCEPT
                        !.code = "stream_error",
                        !.message = "An error occurred when generating a response.",
                        !.allowRetry = TRUE]

C15_Witness ==
    /\ pc = "failed"
    /\ raised.class = "CustomStreamError"
    /\ raised.options = <<>>
    /\ raised.message = "custom"
    /\ ErrorEmitted.code = "custom"
    /\ ErrorEmitted.message = "custom"
    /\ ErrorEmitted.allowRetry = FALSE

C15_WitnessGeneric ==
    /\ pc = "failed"
    /\ raised.class = "Error"
    /\ raised.message = "boom"
    /\ ErrorEmitted.message # "boom"

\* C18: for threads.create and threads.add_user_message the new user message
\* is appended to the store before its thread.item.done event is emitted, that
\* event comes before stream_options, and the turn source is called with that
\* user message only after stream_options; for threads.create the empty thread
\* is saved and thread.created is emitted before all of these.
C18_UserMessageBeforeTurn ==
    /\ pc = "created" =>
          /\ thread \in DOMAIN store
          /\ store[thread] = <<>>
          /\ out = <<[Event("thread.created") EXCEPT !.items = <<>>]>>
          /\ writes = <<>>
          /\ invoked = NoInvocation
    /\ (pc \in {"itemDone"} \cup CoordinatorPcs
        /\ request.type \in {"threads.create", "threads.add_user_message"}) =>
          LET k == IF request.type = "threads.create" THEN 2 ELSE 1
              msg == out[k].item
          IN  /\ request.type = "threads.create" => out[1].type = "thread.created"
              /\ out[k].type = "thread.item.done"
              /\ msg.type = "user_message"
              /\ writes[1].op = "addThreadItem"
              /\ writes[1].item = msg
              /\ writes[1].at = k - 1
              /\ pc = "itemDone" => Len(out) = k /\ invoked = NoInvocation
              /\ pc \in CoordinatorPcs =>
                    /\ out[k + 1].type = "stream_options"
                    /\ \A i \in 1..k : out[i].type # "stream_options"
              /\ (pc = "next" /\ Len(out) = k + 1) => invoked = NoInvocation
              /\ invoked # NoInvocation =>
                    /\ invoked.kind = "respond"
                    /\ invoked.input = msg
                    /\ invoked.at >= k + 1
                    /\ \E i \in DOMAIN invoked.items : invoked.items[i] = msg
              /\ consumed # <<>> => invoked # NoInvocation

C18_Witness ==
    /\ pc = "next"
    /\ request.type = "threads.create"
    /\ Len(consumed) = 1
    /\ out[1].type = "thread.created"
    /\ out[2].type = "thread.item.done"
    /\ out[3].type = "stream_options"
    /\ invoked.at = 3
    /\ invoked.input = out[2].item
    /\ store[thread][1] = out[2].item

-----------------------------------------------------------------------------
(* The other streaming requests *)

IsPendingCall(item) == item.type = "client_tool_call" /\ item.status = "pending"

HoldsPendingCall(items) == \E i \in DOMAIN items : IsPendingCall(items[i])

RouterDeletes ==
    SelectSeq(WritesBy("router"), LAMBDA c : c.op = "deleteThreadItem")

\* C16: threads.retry_after_item on a user message has deleted every item that
\* came after the target when the turn source is called again with the target
\* as its input: the target is then the newest item of the thread, and with
\* two newer items both were deleted.
C16_RetryDeletesNewerItems ==
    (request.type = "threads.retry_after_item" /\ pc \in {"itemDone"} \cup CoordinatorPcs) =>
        /\ stream.kind = "respond"
        /\ stream.input.id = request.item_id
        /\ stream.input.type = "user_message"
        /\ pc = "itemDone" =>
              /\ Last(store[thread]) = stream.input
              /\ Len(RouterDeletes) = 2
        /\ invoked # NoInvocation =>
              /\ invoked.input = stream.input
              /\ Last(invoked.items) = invoked.input

\* C17 as stated: threads.add_client_tool_output completes the most recent
\* pending client tool call of the thread and persists it before the turn
\* source is called with no input; it fails, with no store write and no call
\* of the turn source, only if the thread holds no pending tool call.
C17_CompletesMostRecentPendingCall ==
    request.type = "threads.add_client_tool_output" =>
        IF pc = "threw"
        THEN /\ ~HoldsPendingCall(store[thread])
             /\ writes = <<>>
             /\ invoked = NoInvocation
        ELSE /\ writes # <<>>
             /\ writes[1].op = "saveItem"
             /\ writes[1].item.status = "completed"
             /\ writes[1].item.output = request.result
             /\ invoked # NoInvocation => invoked.input = NoItem

\* C17 amended: the request looks at the newest item of the thread only.  If
\* that item is a pending client tool call it is given the result, marked
\* completed and saved before anything is emitted, every other pending call
\* is deleted, and the turn source is then called with no input; otherwise the
\* request fails with no store write, no event and no call of the turn source,
\* whether or not an older item is a pending tool call.
C17_CompletesNewestItemIfPending ==
    request.type = "threads.add_client_tool_output" =>
        IF pc = "threw"
        THEN /\ store[thread] = <<>> \/ ~IsPendingCall(Last(store[thread]))
             /\ writes = <<>>
             /\ out = <<>>
             /\ stream = NoStream
             /\ invoked = NoInvocation
        ELSE /\ writes # <<>>
             /\ writes[1].by = "router"
             /\ writes[1].op = "saveItem"
             /\ writes[1].at = 0
             /\ writes[1].item.type = "client_tool_call"
             /\ writes[1].item.status = "completed"
             /\ writes[1].item.output = request.result
             /\ stream = [kind |-> "respond", input |-> NoItem]
             /\ pc = "itemDone" =>
                   /\ Last(store[thread]) = writes[1].item
                   /\ ~HoldsPendingCall(store[thread])
                   /\ out = <<>>
                   /\ invoked = NoInvocation
             /\ invoked # NoInvocation =>
                   /\ invoked.kind = "respond"
                   /\ invoked.input = NoItem
                   /\ Last(invoked.items) = writes[1].item
                   /\ invoked.at >= 1
             /\ consumed # <<>> => invoked # NoInvocation

C17_Witness ==
    /\ pc = "next"
    /\ request.type = "threads.add_client_tool_output"
    /\ Len(consumed) = 1
    /\ invoked.items = <<U0, U1, W0, ClientToolCall("t0", "completed", "ok")>>
    /\ Len(writes) >= 2
    /\ writes[2].op = "deleteThreadItem"
    /\ writes[2].id = "t1"

C17_WitnessOlderPendingCall ==
    /\ pc = "threw"
    /\ request.type = "threads.add_client_tool_output"
    /\ store[thread] = <<U0, D0, U1, T0, W0>>

\* C19: threads.retry_after_item whose target exists and is not a user message
\* fails: no item is deleted, nothing is emitted and the turn source is not
\* called.
C19_RetryOfOtherItemFails ==
    (/\ request.type = "threads.retry_after_item"
     /\ \E i \in DOMAIN store[thread] :
           /\ store[thread][i].id = request.item_id
           /\ store[thread][i].type # "user_message")
    => /\ pc = "threw"
       /\ writes = <<>>
       /\ store[thread] \in RouterItems
       /\ out = <<>>
       /\ stream = NoStream
       /\ invoked = NoInvocation
       /\ ~ENABLED NextRouter

C19_Witness ==
    /\ pc = "threw"
    /\ request.type = "threads.retry_after_item"
    /\ request.item_id = "w0"
    /\ \E i \in DOMAIN store[thread] : store[thread][i] = W0
    /\ Len(store[thread]) = 5

\* C20: threads.custom_action with the id of an item that is not a widget
\* emits exactly one error event, with allowRetry = false, and then stops: the
\* action handler is not called and no stream_options or thread.updated is
\* emitted.
C20_ActionOnOtherItemRejected ==
    (/\ request.type = "threads.custom_action"
     /\ \E i \in DOMAIN store[thread] :
           /\ store[thread][i].id = request.item_id
           /\ store[thread][i].type # "widget")
    => /\ pc \in {"rejected", "ended"}
       /\ Len(out) = 1
       /\ out[1].type = "error"
       /\ out[1].allowRetry = FALSE
       /\ stream = NoStream
       /\ invoked = NoInvocation
       /\ writes = <<>>
       /\ pc = "rejected" => ENABLED CustomActionReturns /\ ~ENABLED StreamOptions
       /\ pc = "ended" => ~ENABLED NextRouter

C20_Witness ==
    /\ pc = "ended"
    /\ request.type = "threads.custom_action"
    /\ request.item_id = "u0"
    /\ out = <<[Event("error") EXCEPT !.code = "stream_error"]>>

C20_WitnessWidget ==
    /\ pc = "next"
    /\ request.type = "threads.custom_action"
    /\ invoked = [kind |-> "action", input |-> W0, at |-> 1, items |-> store[thread]]

-----------------------------------------------------------------------------
(* Assistant message updates *)

EmptyPart == [type |-> "output_text", text |-> <<>>, annotations |-> <<>>]

Max(a, b) == IF a >= b THEN a ELSE b

\* the pending item an update is for, before and after the step that applies it
C21_Old == PendingGet(pendingItems, event'.item_id)
C21_New == PendingGet(pendingItems', event'.item_id)

\* the part the update works on: the item's part at the index, or an empty
\* text part when the item has no such part
C21_Previous ==
    IF event'.update.content_index < Len(C21_Old.content)
    THEN C21_Old.content[event'.update.content_index + 1]
    ELSE EmptyPart

C21_ExpectedPart ==
    LET u == event'.update
        prev == C21_Previous
        k == Len(prev.annotations)
    IN  CASE u.type \in {"assistant_message.content_part.added",
                         "assistant_message.content_part.done"} -> u.content
          [] u.type = "assistant_message.content_part.text_delta" ->
                [prev EXCEPT !.text = prev.text \o u.delta]
          [] u.type = "assistant_message.content_part.annotation_added" ->
                [prev EXCEPT !.annotations =
                    IF u.annotation_index >= k
                    THEN prev.annotations \o <<u.annotation>>
                    ELSE [ j \in 1..(k + 1) |->
                             IF j <= u.annotation_index THEN prev.annotations[j]
                             ELSE IF j = u.annotation_index + 1 THEN u.annotation
                             ELSE prev.annotations[j - 1] ]]

\* C21: when the coordinator applies an assistant-message update with content
\* index i to a pending message of n parts, the message then has max(n, i+1)
\* parts; every part other than part i is what it was, or an empty text part
\* if it did not exist; part i is the update's content for added and done,
\* the previous part with the delta appended to its text for text_delta, and
\* the previous part with the annotation inserted at annotation_index
\* (appended when that index is at or beyond the number of annotations) for
\* annotation_added; nothing else of the message changes.
C21_UpdateAppliedAtIndex ==
    [][ (consumed' # consumed /\ IsAppliedUpdate(event', pendingItems)) =>
          LET n == Len(C21_Old.content)
              i == event'.update.content_index
          IN  /\ Len(C21_New.content) = Max(n, i + 1)
              /\ \A j \in 1..Len(C21_New.content) :
                    j # i + 1 =>
                      C21_New.content[j] =
                        IF j <= n THEN C21_Old.content[j] ELSE EmptyPart
              /\ C21_New.content[i + 1] = C21_ExpectedPart
              /\ [C21_New EXCEPT !.content = C21_Old.content] = C21_Old ]_vars

\* an annotation was appended to the first part of a one-part message at an
\* index beyond its annotations, and a delta then reached a third part that
\* did not exist: the second part is an empty text part
C21_Witness ==
    /\ Len(consumed) = 3
    /\ consumed[3].update.type = "assistant_message.content_part.text_delta"
    /\ pendingItems =
         <<AssistantMessage("a1",
             <<Part(<<"a">>, <<"n1">>), EmptyPart, Part(<<"b">>, <<>>)>>)>>

-----------------------------------------------------------------------------
(* diffWidget *)

\* the two snapshots read as values: a plain object is what it holds
SamePadding(p, q) == p.kind = q.kind /\ p.x = q.x

SameRoot(b, a) ==
    /\ b.type = a.type
    /\ b.id = a.id
    /\ b.key = a.key
    /\ SamePadding(b.padding, a.padding)
    /\ Len(b.children) = Len(a.children)

\* child i is a text node whose value is extended by a non-empty suffix, and
\* nothing else differs between the snapshots but, possibly, its streaming flag
ExtendedOnly(b, a, i) ==
    /\ SameRoot(b, a)
    /\ \A j \in DOMAIN b.children : j # i => b.children[j] = a.children[j]
    /\ b.children[i].type = "Text"
    /\ [a.children[i] EXCEPT !.value = <<>>, !.streaming = "true"]
         = [b.children[i] EXCEPT !.value = <<>>, !.streaming = "true"]
    /\ startsWith(a.children[i].value, b.children[i].value)
    /\ Len(a.children[i].value) > Len(b.children[i].value)

\* C22: when a text node's value is extended by a non-empty suffix and nothing
\* else changes except possibly that node's streaming flag, diffWidget returns
\* exactly one streaming-text delta, with the node's id as component_id, the
\* suffix as delta, and done the negation of the after node's streaming flag.
C22_OneDeltaForExtendedText ==
    pc = "diffed" =>
      \A i \in DOMAIN diffBefore.children :
        ExtendedOnly(diffBefore, diffAfter, i) =>
          diffResult = Returned(<<WidgetStreamingTextValueDelta(
              diffAfter.children[i].id,
              slice(diffAfter.children[i].value, Len(diffBefore.children[i].value)),
              diffAfter.children[i].streaming # "true")>>)

\* a field that is not exempt differs somewhere in the tree: the root's type,
\* id, key or padding, the number of children, a child's type, id or key, or
\* a text value that is no extension of the value before
NonExemptChange(b, a) ==
    \/ ~SameRoot(b, a)
    \/ \E i \in DOMAIN b.children :
         \/ b.children[i].type # a.children[i].type
         \/ b.children[i].id # a.children[i].id
         \/ b.children[i].key # a.children[i].key
         \/ ~startsWith(a.children[i].value, b.children[i].value)

\* C23: when a non-exempt field differs anywhere in the tree, diffWidget
\* returns exactly one root-updated delta whose widget is the after snapshot,
\* and nothing else.
C23_RootUpdatedOnStructuralChange ==
    (pc = "diffed" /\ NonExemptChange(diffBefore, diffAfter)) =>
        diffResult = Returned(<<WidgetRootUpdated(diffAfter)>>)

\* a text value was replaced by one that does not extend it, in a card that
\* holds a second text node: the one delta carries the whole after snapshot
C23_Witness ==
    /\ pc = "diffed"
    /\ Len(diffBefore.children) = 2
    /\ Len(diffAfter.children) = 2
    /\ SameRoot(diffBefore, diffAfter)
    /\ diffBefore.children[1].id = "t"
    /\ diffAfter.children[1].id = "t"
    /\ diffBefore.children[1].value = <<"a">>
    /\ diffAfter.children[1].value = <<"b">>
    /\ diffBefore.children[2] = diffAfter.children[2]
    /\ diffResult = Returned(<<WidgetRootUpdated(diffAfter)>>)

FlipOnly(b, a, i) ==
    /\ SameRoot(b, a)
    /\ \A j \in DOMAIN b.children : j # i => b.children[j] = a.children[j]
    /\ b.children[i].type = "Text"
    /\ b.children[i].id # ""
    /\ [a.children[i] EXCEPT !.streaming = "true"]
         = [b.children[i] EXCEPT !.streaming = "true"]
    /\ b.children[i].streaming # a.children[i].streaming

\* C25: when two snapshots differ only by a flip of the streaming flag on an
\* id-bearing text node, its value unchanged, diffWidget returns a single
\* streaming-text delta for that node with an empty delta and done = true,
\* and no full replace.
C25_FlipYieldsEmptyDelta ==
    pc = "diffed" =>
      \A i \in DOMAIN diffBefore.children :
        FlipOnly(diffBefore, diffAfter, i) =>
          diffResult = Returned(<<WidgetStreamingTextValueDelta(
              diffAfter.children[i].id, <<>>, TRUE)>>)

\* the id-bearing text nodes of a snapshot
IdTexts(w) ==
    { w.children[i] : i \in { j \in DOMAIN w.children :
                                w.children[j].type = "Text" /\ w.children[j].id # "" } }

\* C26: diffWidget raises an error, and returns nothing, whenever an
\* id-bearing text node of the after snapshot has no node with the same id in
\* the before snapshot, or has a value that does not start with the value of
\* its before node.
C26_FailsOnNewOrRewrittenNode ==
    (/\ pc = "diffed"
     /\ \E n \in IdTexts(diffAfter) :
          \/ \A o \in IdTexts(diffBefore) : o.id # n.id
          \/ \E o \in IdTexts(diffBefore) :
               o.id = n.id /\ ~startsWith(n.value, o.value))
    => diffResult.kind = "threw"

-----------------------------------------------------------------------------
(* streamWidget *)

\* the updates of a sequence of snapshots: those of each snapshot against the
\* one before it, in order
RECURSIVE UpdatesOf(_)
UpdatesOf(states) ==
    IF Len(states) < 2 THEN <<>>
    ELSE UpdatesOf(SubSeq(states, 1, Len(states) - 1))
         \o diffWidget(states[Len(states) - 1], states[Len(states)]).deltas

\* the snapshots the generator has yielded so far
YieldedStates == SubSeq(widgetArg.states, 1, Len(widgetArg.states) - Len(asyncGen))

\* C27: for a generator, streamWidget yields nothing if the generator yields
\* no snapshot; otherwise it yields one thread.item.added first, with the
\* first snapshot, then only thread.item.updated events, one for each update
\* of each snapshot against the last one, then one thread.item.done last;
\* all of them carry the item id that was generated once, when the call began.
C27_AddedThenUpdatesThenDone ==
    (widgetArg.kind = "generator" /\ pc \in {"widgetLoop", "widgetReturned"}) =>
      IF widgetArg.states = <<>>
      THEN widgetOut = <<>>
      ELSE LET updates == UpdatesOf(YieldedStates)
               n == Len(widgetOut)
               last == IF pc = "widgetReturned" THEN n - 1 ELSE n
           IN  /\ widgetItemId = defaultGenerateId("message", idCounter)
               /\ widgetOut[1].type = "thread.item.added"
               /\ widgetOut[1].item.id = widgetItemId
               /\ widgetOut[1].item.widget = widgetArg.states[1]
               /\ last = 1 + Len(updates)
               /\ \A k \in 2..last :
                     /\ widgetOut[k].type = "thread.item.updated"
                     /\ widgetOut[k].item_id = widgetItemId
                     /\ widgetOut[k].update = updates[k - 1]
               /\ pc = "widgetReturned" =>
                     /\ asyncGen = <<>>
                     /\ widgetOut[n].type = "thread.item.done"
                     /\ widgetOut[n].item.id = widgetItemId

\* a generator of three snapshots, the second of which extends two text
\* nodes at once: added, two updates for the second snapshot, one for the
\* third, done
C27_Witness ==
    /\ pc = "widgetReturned"
    /\ widgetArg.kind = "generator"
    /\ Len(widgetArg.states) = 3
    /\ Len(diffWidget(widgetArg.states[1], widgetArg.states[2]).deltas) = 2
    /\ Len(widgetOut) = 5
    /\ widgetOut[5].type = "thread.item.done"
    /\ widgetItemId = "msg_10"

\* a generator that yields nothing
C27_WitnessEmpty ==
    /\ pc = "widgetReturned"
    /\ widgetArg = WidgetGenerator(<<>>)
    /\ widgetOut = <<>>

\* C28: for a single widget, streamWidget yields exactly one event, a
\* thread.item.done whose item carries that widget; no thread.item.added and
\* no thread.item.updated.
C28_SingleWidgetOneDone ==
    (widgetArg.kind = "widget" /\ pc = "widgetReturned") =>
        /\ Len(widgetOut) = 1
        /\ widgetOut[1].type = "thread.item.done"
        /\ widgetOut[1].item.type = "widget"
        /\ widgetOut[1].item.widget = widgetArg.widget
        /\ widgetOut[1].item.id = widgetItemId

C28_Witness ==
    /\ pc = "widgetReturned"
    /\ widgetArg.kind = "widget"
    /\ Len(widgetArg.widget.children) = 2
    /\ widgetOut[1].item.widget = widgetArg.widget

\* a client's replay of one update on the tree it holds: a root update
\* replaces the tree, a text delta is appended to the node with the id
ReplayOne(tree, u) ==
    IF u.type = "widget.root.updated" THEN u.widget
    ELSE [tree EXCEPT !.children =
            [ i \in DOMAIN tree.children |->
                IF tree.children[i].id = u.component_id
                THEN [tree.children[i] EXCEPT !.value = @ \o u.delta]
                ELSE tree.children[i] ]]

RECURSIVE Replay(_, _)
Replay(tree, events) ==
    IF events = <<>> THEN tree
    ELSE Replay(ReplayOne(tree, Head(events).update), Tail(events))

\* C29: for a generator that yields a snapshot, replaying the
\* thread.item.added snapshot and then every thread.item.updated update in
\* order gives a tree equal to the snapshot of the thread.item.done event,
\* which is the generator's last snapshot.
C29_ReplayGivesDoneSnapshot ==
    (widgetArg.kind = "generator" /\ pc = "widgetReturned" /\ widgetOut # <<>>) =>
        LET n == Len(widgetOut)
        IN  /\ widgetOut[n].item.widget = widgetArg.states[Len(widgetArg.states)]
            /\ Replay(widgetOut[1].item.widget, SubSeq(widgetOut, 2, n - 1))
                 = widgetOut[n].item.widget

-----------------------------------------------------------------------------
(* AsyncQueue *)

\* the items handed to enqueue before complete was called, in order
EnqueuedBeforeCompletion ==
    LET kept == SelectSeq(enqueued, LAMBDA c : ~c.completed)
    IN  [ i \in DOMAIN kept |-> kept[i].item ]

\* the items the consumer has received, in order
DeliveredItems ==
    LET got == SelectSeq(delivered, LAMBDA r : ~r.done)
    IN  [ i \in DOMAIN got |-> got[i].value ]

\* C30: with one consumer, the items the consumer has received followed by
\* the items still buffered are, at every moment, exactly the items enqueued
\* before completion, each once and in the order of the enqueue calls; the
\* consumer is told done at most once, as the last thing it receives, only
\* after complete was called and only when it has received every one of them.
C30_DeliversEnqueuedInOrderThenDone ==
    /\ DeliveredItems \o queueItems = EnqueuedBeforeCompletion
    /\ \A k \in DOMAIN delivered :
         delivered[k].done =>
           /\ k = Len(delivered)
           /\ queueDone
           /\ queueItems = <<>>
           /\ DeliveredItems = EnqueuedBeforeCompletion
    /\ pc = "queueFinished" <=>
         (delivered # <<>> /\ delivered[Len(delivered)].done)

\* the consumer has received one item that was buffered before it asked and
\* one that was enqueued while it was waiting, then done; an item enqueued
\* after completion was dropped
C30_Witness ==
    /\ pc = "queueFinished"
    /\ Len(delivered) = 3
    /\ delivered[1].via = "next"
    /\ delivered[2].via = "resolver"
    /\ delivered[3].done
    /\ Len(enqueued) = 3
    /\ enqueued[3].completed

\* C31: once complete() has been called, enqueue has no effect: the buffer,
\* the pending next() calls and what the consumer has received stay as they
\* are; and an item that was buffered when complete() was called is still
\* handed out by next(), which reports done only on an empty buffer.
C31_EnqueueAfterCompleteIgnored ==
    [][ /\ (queueDone /\ enqueued' # enqueued) =>
              UNCHANGED <<queueItems, resolvers, delivered, queueDone, pc>>
        /\ (queueDone /\ queueItems # <<>> /\ delivered' # delivered) =>
              /\ delivered' = Append(delivered, IteratorValue(Head(queueItems), "next"))
              /\ queueItems' = Tail(queueItems) ]_vars

\* an item was buffered, complete() was called, a second item was enqueued
\* and dropped; the consumer then received the first item and done
C31_Witness ==
    /\ pc = "queueFinished"
    /\ Len(enqueued) = 2
    /\ ~enqueued[1].completed
    /\ enqueued[2].completed
    /\ delivered = <<IteratorValue(enqueued[1].item, "next"), IteratorDone("next")>>

\* the results consumer c has received, in order
ReceivedBy(c) == SelectSeq(delivered, LAMBDA r : r.to = c)

\* C32: once complete() has been called no next() is pending: the call
\* resolves every waiting consumer with done, and a next() called afterwards
\* on an empty buffer resolves with done at once; a consumer is told done at
\* most once, as the last thing it receives, and a repeated complete()
\* changes nothing.
C32_NoConsumerWaitsAfterComplete ==
    /\ queueDone => resolvers = <<>>
    /\ \A c \in Consumers :
         \A k \in DOMAIN ReceivedBy(c) :
           ReceivedBy(c)[k].done => (k = Len(ReceivedBy(c)) /\ queueDone)
    /\ (queueDone /\ queueItems = <<>>) =>
         \A c \in Consumers :
           Finished(c) \/ ENABLED (SharedNext /\ Finished(c)')

\* both consumers were waiting when complete() was called: both got done
C32_Witness ==
    /\ queueDone
    /\ delivered = <<To("c1", IteratorDone("resolver")), To("c2", IteratorDone("resolver"))>>

\* C33: with several consumers, the items the consumers have received, in
\* the order they were handed out, followed by the items still buffered are
\* exactly the items enqueued before completion, in the order of the enqueue
\* calls: none is handed out twice, and none is left in the buffer while a
\* consumer waits or after a consumer was told done.
C33_EachItemToOneConsumer ==
    LET got == SelectSeq(delivered, LAMBDA r : ~r.done)
    IN  /\ [ i \in DOMAIN got |-> got[i].value ] \o queueItems = EnqueuedBeforeCompletion
        /\ (resolvers # <<>>) => queueItems = <<>>
        /\ (\E c \in Consumers : Finished(c)) => queueItems = <<>>

\* three items went to two consumers, one of them straight from the buffer
C33_Witness ==
    /\ Len(SelectSeq(delivered, LAMBDA r : ~r.done)) = 3
    /\ \E i, j \in DOMAIN delivered :
         /\ ~delivered[i].done /\ delivered[i].to = "c1" /\ delivered[i].via = "next"
         /\ ~delivered[j].done /\ delivered[j].to = "c2" /\ delivered[j].via = "resolver"

-----------------------------------------------------------------------------
(* Threads of a page or more *)

\* C34: when the turn source is called by threads.create,
\* threads.add_user_message or threads.add_client_tool_output, the thread's
\* durable items hold no client tool call with status pending, however many
\* items the thread holds.
C34_NoPendingCallWhenSourceCalled ==
    (/\ invoked # NoInvocation
     /\ request.type \in {"threads.create", "threads.add_user_message",
                          "threads.add_client_tool_output"})
    => \A k \in DOMAIN invoked.items : ~IsPendingCall(invoked.items[k])

-----------------------------------------------------------------------------
(* The end of a turn *)

TurnEnded == pc \in {"completed", "failed"}

\* C35: when a turn ends, normally or through an exception of the turn source,
\* every item listed in the final thread.updated snapshot is in the store.
C35_FinalSnapshotIsStored ==
    (TurnEnded /\ out # <<>> /\ out[Len(out)].type = "thread.updated")
    => IdsOf(out[Len(out)].items) \subseteq IdsOf(store[thread])

-----------------------------------------------------------------------------
(* What the coordinator forwards *)

CoordinatorRuns == pc \in {"next", "yielded", "caught", "completed", "failed"}

\* what processEvents has yielded so far
CoordinatorOutput == SubSeq(out, base + 1, Len(out))

Synthesized(e) == e.type \in {"stream_options", "thread.updated", "error"}

SuppressedDone(e) ==
    e.type = "thread.item.done" /\ e.item.type \in {"hidden_context", "sdk_hidden_context"}

\* C36: the coordinator forwards the events of the turn source in order and
\* each at most once: its output without the stream_options, thread.updated
\* and error events is the sequence of events read from the source without
\* the done events of hidden items; and the chunks on the wire are one per
\* emitted event, in the same order.
C36_ForwardsSourceEventsInOrder ==
    /\ CoordinatorRuns =>
          SelectSeq(CoordinatorOutput, LAMBDA e : ~Synthesized(e))
            = SelectSeq(consumed, LAMBDA e : ~SuppressedDone(e))
    /\ Len(processStreaming(out)) = Len(out)
    /\ \A i \in DOMAIN out :
          processStreaming(out)[i] =
              [prefix |-> "data: ", b |-> [json |-> out[i]], suffix |-> "\n\n"]

C36_Witness ==
    /\ pc = "failed"
    /\ Len(consumed) = MaxEvents
    /\ SuppressedDone(consumed[2])
    /\ ~SuppressedDone(consumed[1])
    /\ ~SuppressedDone(consumed[3])
    /\ consumed[1] # consumed[3]

-----------------------------------------------------------------------------
(* Text deltas of a pending assistant message *)

IsTextDeltaFor(e, id, index) ==
    /\ e.type = "thread.item.updated"
    /\ e.item_id = id
    /\ e.update.type = "assistant_message.content_part.text_delta"
    /\ e.update.content_index = index

RECURSIVE JoinDeltas(_)
JoinDeltas(events) ==
    IF events = <<>> THEN <<>>
    ELSE Head(events).update.delta \o JoinDeltas(Tail(events))

\* the turn so far: an assistant message added with content part index, then
\* text deltas for that item and part only
AddedThenDeltas(events, index) ==
    /\ events # <<>>
    /\ events[1].type = "thread.item.added"
    /\ events[1].item.type = "assistant_message"
    /\ index < Len(events[1].item.content)
    /\ \A j \in 2..Len(events) : IsTextDeltaFor(events[j], events[1].item.id, index)

UpdateOfNoPendingItem ==
    /\ consumed' # consumed
    /\ event'.type = "thread.item.updated"
    /\ ~PendingHas(pendingItems, event'.item_id)

\* C37: after an assistant message was added with text t0 in content part i
\* and text deltas d1..dn for that item and part were read, every snapshot
\* emitted while the item is pending shows the item with part i holding t0
\* followed by d1..dn in the order they arrived; and an update for an id that
\* is not pending changes neither the pending items nor the store.
C37_SnapshotsShowDeltasInOrder ==
    [][ /\ \A k \in NewSnapshots : \A index \in 0..2 :
              AddedThenDeltas(consumed', index) =>
                  LET item == consumed'[1].item
                  IN  \E x \in DOMAIN out'[k].items :
                          /\ out'[k].items[x].id = item.id
                          /\ Len(out'[k].items[x].content) = Len(item.content)
                          /\ out'[k].items[x].content[index + 1].text =
                                 item.content[index + 1].text \o JoinDeltas(Tail(consumed'))
        /\ UpdateOfNoPendingItem =>
              /\ pendingItems' = pendingItems
              /\ store' = store
              /\ out' = Append(out, event')
      ]_vars

C37_Witness ==
    /\ pc = "completed"
    /\ consumed = <<ItemAdded(A1), ItemUpdated("a1", TextDelta(0, <<"b">>)),
                    ItemUpdated("a1", TextDelta(0, <<"c">>))>>
    /\ \E x \in DOMAIN out[Len(out)].items :
          /\ out[Len(out)].items[x].id = "a1"
          /\ out[Len(out)].items[x].content[1].text = <<"a", "b", "c">>

C37_WitnessNotPending ==
    /\ consumed # <<>>
    /\ consumed[1].type = "thread.item.updated"
    /\ pendingItems = <<>>

-----------------------------------------------------------------------------
(* The snapshot after a done event *)

\* the done events of items that are not hidden, as processEvents forwarded
\* them, each with an event after it
ForwardedDone ==
    { k \in (base + 1)..(Len(out) - 1) :
        out[k].type = "thread.item.done" /\ ~isHidden(out[k].item) }

\* C38: right after the done event of an item that is not hidden is
\* forwarded, the thread.updated snapshot that follows lists that item,
\* whatever the number of items the thread holds.
C38_SnapshotAfterDoneListsItem ==
    CoordinatorRuns =>
        \A k \in ForwardedDone :
            /\ out[k + 1].type = "thread.updated"
            /\ out[k].item.id \in IdsOf(out[k + 1].items)

-----------------------------------------------------------------------------
(* Retry after an item the thread does not hold *)

\* C39: threads.retry_after_item whose item_id is the id of no item of the
\* thread deletes no item, does not call the turn source and emits no event
\* at all: the stream ends empty.
C39_RetryOfUnknownItemDoesNothing ==
    (/\ request.type = "threads.retry_after_item"
     /\ request.item_id \notin IdsOf(store[thread]))
    => /\ pc = "ended"
       /\ writes = <<>>
       /\ store[thread] \in RouterItems
       /\ out = <<>>
       /\ stream = NoStream
       /\ invoked = NoInvocation
       /\ ~ENABLED NextRouter

C39_Witness ==
    /\ pc = "ended"
    /\ request.type = "threads.retry_after_item"
    /\ request.item_id = "zz"
    /\ Len(store[thread]) = 5
    /\ out = <<>>

-----------------------------------------------------------------------------
(* Ids of the default generator *)

IdsOfKind(kind) == { ID_PREFIXES[kind] \o "_" \o ToHex(n) : n \in 1..(2 * MaxStoredItems) }

\* C40: an id of the default generator carries the prefix of its kind and is
\* new: a thread that is created and a user message that is built never get
\* the id of a thread or item the store already holds, whether the store got
\* it from this process or from one that ran before a restart.
C40_GeneratedIdIsNew ==
    [][ /\ (pc = "idle" /\ pc' = "created") =>
              /\ thread' \in IdsOfKind("thread")
              /\ thread' \notin StoredIds(store)
        /\ (pc # "itemDone" /\ pc' = "itemDone") =>
              /\ stream'.input.id \in IdsOfKind("message")
              /\ stream'.input.id \notin StoredIds(store)
      ]_vars

====
